---- MODULE Spec2Model ----
(***************************************************************************)
(* OTAShip update server: the metadata store of Update records, the admin  *)
(* handlers that write it (RegisterUpdate, UpdateUpdate, CreateRollback,   *)
(* DeleteUpdate, DeleteProject) behind the AdminAuth middleware, the       *)
(* manifest endpoint that reads it and signs its parts, the asset endpoint *)
(* with its download counter, and the Object Store folders of the uploads. *)
(*                                                                         *)
(* Requests are served concurrently, each by a goroutine of its own.  A    *)
(* handler that makes one call to the store runs as one step.  A handler   *)
(* that waits more than once (RegisterUpdate, DeleteUpdate, DeleteProject) *)
(* runs as one step per call to the store or to the Object Store:          *)
(* RegisterUpdate waits for EnsureProjectExists once its temp directory is *)
(* filled, then for every file it uploads, then for the insert.  A handler *)
(* that stamps a document with time.Now() before it waits for the insert   *)
(* (RegisterUpdate, CreateRollback) takes the stamp in the step before the *)
(* insert.  Between two of its steps a handler is held in `running` with   *)
(* its local variables, and the steps of other handlers, and new requests  *)
(* on any route, may come in between.  The step in which a handler builds  *)
(* its HTTP response leaves it in `last`, and the response is written out  *)
(* (Respond) before another step of a handler is taken.                    *)
(* The goroutines a handler starts (IncrementDownloads, DeleteFolder) run  *)
(* as steps of their own, whenever the scheduler lets them.                *)
(*                                                                         *)
(* Optional values (a form field that may be absent, a nil pointer, a      *)
(* lookup that may find nothing) are sequences of length 0 or 1.           *)
(*                                                                         *)
(* Specifications, one per deployment and group of routes:                 *)
(*   Spec       no admin secret, no Object Store, no key: admin routes and *)
(*              the manifest endpoint, the uploads complete exports        *)
(*   UploadSpec uploads of every kind and the faults of an ingestion, with *)
(*              patches and the manifest endpoint                          *)
(*   AuthSpec   the admin routes with and without an admin secret          *)
(*   CloudSpec  ingestion and deletion with the Object Store connected     *)
(*   SignSpec   the manifest endpoint with and without a signing key       *)
(*   AssetSpec  the asset endpoint and its background increments           *)
(*   FaultySpec the admin routes and the manifest endpoint over a store    *)
(*              whose calls may fail, or with no database connected        *)
(*   ClientSpec the client routes, scoped and legacy                       *)
(*   IngestSpec concurrent ingestions, patches, deletions and lookups      *)
(*   PathSpec   the asset endpoint asked for local files under every name  *)
(*   RolloutSpec the rollout service on its own                            *)
(***************************************************************************)
EXTENDS Integers, Sequences, FiniteSets, Bags, TLC

VARIABLES
    store,    \* the updates collection: ObjectID -> Update document
    nextId,   \* the next ObjectID the store hands out
    clock,    \* the latest reading of time.Now() in Create, in milliseconds
    acked,    \* ObjectIDs RegisterUpdate answered 201 for and no delete has named since
    last,     \* the request just handled and its response, or Idle
    cfg,      \* the configuration read at startup: admin secret, Object Store, signing key
    tempDirs, \* the upload directories that exist under the system temp directory,
              \* each with the zip unpacked into it (none when unpacking failed)
    cdn,         \* the folders the Object Store holds
    cdnDeleting, \* the bag of folders of the background DeleteFolder calls not run yet
    pending,     \* updateId arguments of background IncrementDownloads calls not run yet
    nextUpload,  \* the number of the next upload: its temp directory and its UUID
    running      \* the bag of handler calls that wait between two of their steps

vars == <<store, nextId, clock, acked, last, cfg, tempDirs, cdn, cdnDeleting, pending,
          nextUpload, running>>

\* Number of ObjectIDs the store hands out in one run.
MaxUpdates == 2

\* Number of download increments counted or in flight at one time.
MaxDownloads == 2

\* Number of handler calls that wait between two of their steps at one time.
MaxRunning == 2

\* Number of uploads that get a temp directory in one run.
MaxUploads == MaxUpdates

\* Number of background DeleteFolder calls not run yet at one time.
MaxFolderCalls == MaxUpdates

----------------------------------------------------------------------------
\* models/update.go constants

ChannelProduction == "production"

ChannelStaging == "staging"

PlatformAndroid == "android"

PlatformIOS == "ios"

PlatformAll == "all"

\* config.AppConfig.Hostname, the prefix of every asset URL.
Hostname == "http://localhost:8080"

----------------------------------------------------------------------------
\* Optional values

None == <<>>

Some(v) == <<v>>

\* gin Context.PostForm / Query: "" when the key is absent.
PostForm(field) == IF field = None THEN "" ELSE field[1]

\* gin Context.DefaultPostForm / DefaultQuery: the default only when the key
\* is absent; a key present with an empty value stays empty.
DefaultPostForm(field, def) == IF field = None THEN def ELSE field[1]

\* strconv.Atoi on the decimal strings the model submits; every other string
\* is a parse error, whose value is 0 (both call sites drop the error).
Atoi(s) ==
    CASE s = "0" -> 0
      [] s = "1" -> 1
      [] s = "2" -> 2
      [] s = "50" -> 50
      [] s = "100" -> 100
      [] s = "150" -> 150
      [] s = "-5" -> -5
      [] OTHER -> 0

\* time.Time.UTC().Format("2006-01-02T15:04:05.000Z") of a millisecond
\* timestamp: whole seconds and the three-digit millisecond fraction.
FormatTime(ms) == [sec |-> ms \div 1000, millis |-> ms % 1000]

\* primitive.ObjectID.Hex()
Hex(id) == "oid" \o ToString(id)

----------------------------------------------------------------------------
\* Hasher (services)

\* sha256.Sum256 as a digest named after the bytes it was computed from.
Sha256(data) == "sha256(" \o data \o ")"

\* ComputeSHA256Hash(data): the digest in hex.
ComputeSHA256Hash(data) == "hex:" \o Sha256(data)

\* ComputeSHA256HashBytes(data): the raw digest.
ComputeSHA256HashBytes(data) == Sha256(data)

\* Base64URLEncode(digest): unpadded URL-safe base64.
Base64URLEncode(digest) == "b64url:" \o digest

\* ComputeSHA256Hash(data)[:32]: the first 32 hex characters.
Key32(data) == "hex32:" \o Sha256(data)

----------------------------------------------------------------------------
\* Unpacked bundles a publisher may upload

AndroidBundle == "bundles/android-a.js"

IosBundle == "bundles/ios-a.js"

AssetA == "assets/a1"

\* metadata.json as decoded into models.UpdateMetadata (no hashes yet).
RawPlatform(bundle, assetPaths) ==
    [bundle |-> bundle, bundleUrl |-> "", bundleKey |-> "", bundleHash |-> "",
     assets |-> [i \in DOMAIN assetPaths |->
                    [path |-> assetPaths[i], ext |-> "png", url |-> "",
                     key |-> "", hash |-> ""]]]

\* filepath.Dir and filepath.Base of the paths metadata.json names.
PathDir(path) == IF path = AssetA THEN "assets" ELSE "bundles"

PathBase(path) ==
    CASE path = AndroidBundle -> "android-a.js"
      [] path = IosBundle -> "ios-a.js"
      [] OTHER -> "a1"

\* A zip is the export it holds (metadata.json, expoConfig.json and the
\* files), the directory of the archive the export lies in ("" when it lies
\* at the root of the archive) and the other files at the archive's root.

\* A complete export for both platforms, one shared asset, zipped from
\* inside the export directory.
ZipBoth ==
    [dir |-> "", extra |-> {},
     metadataJson |-> Some([android |-> RawPlatform(AndroidBundle, <<AssetA>>),
                            ios |-> RawPlatform(IosBundle, <<AssetA>>)]),
     expoConfigJson |-> Some("expo-config"),
     files |-> [p \in {AndroidBundle, IosBundle, AssetA} |->
                  CASE p = AndroidBundle -> "x" [] p = IosBundle -> "y" [] OTHER -> "z"]]

\* An export made for android only, zipped by the CLI: zipDirectory puts
\* every entry under the name of the export directory, dist.
ZipAndroid ==
    [dir |-> "dist", extra |-> {},
     metadataJson |-> Some([android |-> RawPlatform(AndroidBundle, <<>>)]),
     expoConfigJson |-> None,
     files |-> [p \in {AndroidBundle} |-> "x"]]

\* A zip without metadata.json: its only root entry is the directory bundles.
ZipNoMetadata ==
    [dir |-> "", extra |-> {},
     metadataJson |-> None,
     expoConfigJson |-> None,
     files |-> [p \in {AndroidBundle} |-> "x"]]

\* metadata.json names files the zip does not hold: the ios launch bundle
\* and the asset are missing.  The export lies in dist, next to a readme.
ZipMissingFiles ==
    [dir |-> "dist", extra |-> {"README.md"},
     metadataJson |-> Some([android |-> RawPlatform(AndroidBundle, <<AssetA>>),
                            ios |-> RawPlatform(IosBundle, <<>>)]),
     expoConfigJson |-> None,
     files |-> [p \in {AndroidBundle} |-> "x"]]

----------------------------------------------------------------------------
\* Ingestion: the root of the unpacked bundle (AdminHandler.RegisterUpdate)

\* os.ReadDir of the directory the zip was unpacked into.
RootEntries(zip) ==
    LET export ==
            (IF zip.metadataJson # None
             THEN {[name |-> "metadata.json", isDir |-> FALSE]} ELSE {})
            \cup (IF zip.expoConfigJson # None
                  THEN {[name |-> "expoConfig.json", isDir |-> FALSE]} ELSE {})
            \cup {[name |-> PathDir(p), isDir |-> TRUE] : p \in DOMAIN zip.files}
    IN (IF zip.dir = "" THEN export
        ELSE IF export = {} THEN {}
        ELSE {[name |-> zip.dir, isDir |-> TRUE]})
       \cup {[name |-> f, isDir |-> FALSE] : f \in zip.extra}

\* The directory, below the unpacked root, that RegisterUpdate takes as the
\* bundle: the single root entry when that is a directory; else dist, when
\* metadata.json is not at the root and dist/metadata.json exists; else the
\* root itself ("").
BundleRoot(zip) ==
    LET entries == RootEntries(zip)
    IN IF Cardinality(entries) = 1 /\ \A e \in entries : e.isDir
       THEN (CHOOSE e \in entries : TRUE).name
       ELSE IF /\ [name |-> "metadata.json", isDir |-> FALSE] \notin entries
               /\ [name |-> "dist", isDir |-> TRUE] \in entries
               /\ zip.dir = "dist" /\ zip.metadataJson # None
       THEN "dist"
       ELSE ""

\* The tree below the bundle directory, paths relative to it: metadata.json
\* and expoConfig.json when they lie directly in it, the files metadata may
\* name, and the other files.
Unpacked(zip) ==
    LET root == BundleRoot(zip)
        named == (IF zip.metadataJson # None THEN {"metadata.json"} ELSE {})
                 \cup (IF zip.expoConfigJson # None THEN {"expoConfig.json"} ELSE {})
    IN IF root = zip.dir
       THEN [metadataJson |-> zip.metadataJson,
             expoConfigJson |-> zip.expoConfigJson,
             files |-> zip.files,
             others |-> named \cup (IF zip.dir = "" THEN zip.extra ELSE {})]
       ELSE IF zip.dir = ""
       THEN [metadataJson |-> None,
             expoConfigJson |-> None,
             files |-> [b \in {PathBase(p) : p \in DOMAIN zip.files} |->
                          zip.files[CHOOSE p \in DOMAIN zip.files : PathBase(p) = b]],
             others |-> {}]
       ELSE [metadataJson |-> None,
             expoConfigJson |-> None,
             files |-> [q \in {zip.dir \o "/" \o p : p \in DOMAIN zip.files} |->
                          zip.files[CHOOSE p \in DOMAIN zip.files : zip.dir \o "/" \o p = q]],
             others |-> {zip.dir \o "/" \o f : f \in named} \cup zip.extra]

\* Every file filepath.Walk meets below the bundle directory.
WalkFiles(tree) == DOMAIN tree.files \cup tree.others

----------------------------------------------------------------------------
\* Ingestion: metadata parsing and hashing (AdminHandler.RegisterUpdate)

\* The launch bundle of one platform entry: key and hash are filled from the
\* file's bytes when the file can be read, and left as they were when not.
HashBundle(pm, files) ==
    IF pm.bundle \in DOMAIN files
    THEN [pm EXCEPT !.bundleKey = Key32(files[pm.bundle]),
                    !.bundleHash = Base64URLEncode(ComputeSHA256HashBytes(files[pm.bundle]))]
    ELSE pm

\* One asset entry, hashed the same way.
HashAsset(asset, files) ==
    IF asset.path \in DOMAIN files
    THEN [asset EXCEPT !.key = Key32(files[asset.path]),
                       !.hash = Base64URLEncode(ComputeSHA256HashBytes(files[asset.path]))]
    ELSE asset

\* The loop over metadata.FileMetadata: every platform entry, bundle first,
\* then every asset.
ComputeHashes(fileMetadata, files) ==
    [plat \in DOMAIN fileMetadata |->
        LET pm == HashBundle(fileMetadata[plat], files)
        IN [pm EXCEPT !.assets = [i \in DOMAIN pm.assets |-> HashAsset(pm.assets[i], files)]]]

\* update.Metadata after the parse step: nil when metadata.json cannot be
\* read (a warning is logged and ingestion goes on); expoConfig.json is
\* attached when the zip holds it.
NilMetadata == [nil |-> TRUE]

ParseMetadata(tree) ==
    IF tree.metadataJson = None
    THEN NilMetadata
    ELSE [nil |-> FALSE,
          fileMetadata |-> ComputeHashes(tree.metadataJson[1], tree.files),
          expoConfig |-> tree.expoConfigJson]

\* services.GenerateUUID(): a random identifier, distinct for every call.
GenerateUUID(n) == "uuid-" \o ToString(n)

\* os.MkdirTemp("", "otaship-upload-*"): a directory under a name no other
\* call is given.
TempDir(n) == "/tmp/otaship-upload-" \o ToString(n)

\* filepath.Join(tempDir, "extracted"): the directory the zip is unpacked into.
TempBundlePath(n) == TempDir(n) \o "/extracted"

\* bundlePath after the nesting check: the bundle directory below it.
BundlePath(n, root) ==
    IF root = "" THEN TempBundlePath(n) ELSE TempBundlePath(n) \o "/" \o root

\* The models.Update value RegisterUpdate builds once the bundle directory is
\* found: the Metadata pointer is nil until metadata.json is read.
NewUpdate(form, n) ==
    [projectSlug |-> PostForm(form.projectSlug),
     updateId |-> IF PostForm(form.updateId) = "" THEN GenerateUUID(n)
                  ELSE PostForm(form.updateId),
     runtimeVersion |-> PostForm(form.runtimeVersion),
     channel |-> DefaultPostForm(form.channel, ChannelProduction),
     platform |-> DefaultPostForm(form.platform, PlatformAll),
     bundlePath |-> BundlePath(n, BundleRoot(form.bundle[1])),
     createdAt |-> 0,
     isActive |-> TRUE,
     isRollback |-> FALSE,
     rolloutPercentage |-> Atoi(DefaultPostForm(form.rolloutPercentage, "100")),
     downloads |-> 0,
     metadata |-> NilMetadata]

\* The models.Update value CreateRollback builds: no project slug, no update
\* id, no bundle path, no metadata.
NewRollback(runtimeQuery, channelQuery) ==
    [projectSlug |-> "",
     updateId |-> "",
     runtimeVersion |-> PostForm(runtimeQuery),
     channel |-> DefaultPostForm(channelQuery, ChannelProduction),
     platform |-> PlatformAll,
     bundlePath |-> "",
     createdAt |-> 0,
     isActive |-> TRUE,
     isRollback |-> TRUE,
     rolloutPercentage |-> 100,
     downloads |-> 0,
     metadata |-> NilMetadata]

----------------------------------------------------------------------------
\* Metadata store (UpdateRepository)

\* Create: stamp createdAt, default a zero rollout to 100 and an empty
\* channel to production; the document as inserted.  createdAt is the BSON
\* datetime, milliseconds since the epoch.
RepoCreate(update, now) ==
    [update EXCEPT
        !.createdAt = now,
        !.rolloutPercentage = IF update.rolloutPercentage = 0 THEN 100
                              ELSE update.rolloutPercentage,
        !.channel = IF update.channel = "" THEN ChannelProduction
                    ELSE update.channel]

\* Faulty variant of RepoInsert: the write is lost.
RepoInsert_Lost(s, id, doc) == s

\* InsertOne: the collection with the document under the ObjectID the store
\* assigned.
RepoInsert(s, id, doc) == (id :> doc) @@ s

\* Faulty variant of FindLatestFilter: no platform clause.
FindLatestFilter_AnyPlatform(u, projectSlug, runtimeVersion, channel, platform) ==
    /\ u.projectSlug = projectSlug
    /\ u.runtimeVersion = runtimeVersion
    /\ u.channel = channel
    /\ u.isActive = TRUE

\* Faulty variant of FindLatestFilter: no isActive clause.
FindLatestFilter_IgnoresActive(u, projectSlug, runtimeVersion, channel, platform) ==
    /\ u.projectSlug = projectSlug
    /\ u.runtimeVersion = runtimeVersion
    /\ u.channel = channel
    /\ (platform # "" => (u.platform = platform \/ u.platform = PlatformAll))

\* The filter document of FindLatest applied to one record.
FindLatestFilter(u, projectSlug, runtimeVersion, channel, platform) ==
    /\ u.projectSlug = projectSlug
    /\ u.runtimeVersion = runtimeVersion
    /\ u.channel = channel
    /\ u.isActive = TRUE
    /\ (platform # "" => (u.platform = platform \/ u.platform = PlatformAll))

\* FindOne with sort createdAt descending: a matching record no other
\* matching record is newer than.  Records with equal createdAt are in no
\* defined order, so each of them may be the one returned.
SortNewestFirst(s, ids) ==
    {id \in ids : \A other \in ids : s[other].createdAt <= s[id].createdAt}

\* FindLatest: the set of results the call may return; None stands for
\* (nil, nil), mongo.ErrNoDocuments.
FindLatest(s, projectSlug, runtimeVersion, channel, platform) ==
    LET matching == {id \in DOMAIN s :
                        FindLatestFilter(s[id], projectSlug, runtimeVersion,
                                         channel, platform)}
    IN IF matching = {} THEN {None}
       ELSE {Some(id) : id \in SortNewestFirst(s, matching)}

\* Update(id, $set): the store after the call; the record must exist.
RepoUpdate(s, id, set) ==
    [s EXCEPT ![id] =
        [f \in DOMAIN s[id] |-> IF f \in DOMAIN set THEN set[f] ELSE s[id][f]]]

\* SetRollout: the percentage clamped to 0..100, then Update.  No handler
\* calls it.
SetRollout(s, id, percentage) ==
    RepoUpdate(s, id,
        [rolloutPercentage |-> IF percentage < 0 THEN 0
                               ELSE IF percentage > 100 THEN 100
                               ELSE percentage])

\* Delete(id)
RepoDelete(s, id) == [i \in DOMAIN s \ {id} |-> s[i]]

\* DeleteByProjectSlug(slug)
RepoDeleteByProjectSlug(s, slug) ==
    [i \in {j \in DOMAIN s : s[j].projectSlug # slug} |-> s[i]]

----------------------------------------------------------------------------
\* Rollout selector (RolloutService)

\* The sum of the code points of a device hash.
RECURSIVE HashSum(_)
HashSum(deviceHash) ==
    IF deviceHash = <<>> THEN 0 ELSE Head(deviceHash) + HashSum(Tail(deviceHash))

\* deterministicRollout with the comparison turned around.
deterministicRollout_Inverted(percentage, deviceHash) ==
    (HashSum(deviceHash) % 100) >= percentage

\* deterministicRollout
deterministicRollout(percentage, deviceHash) ==
    (HashSum(deviceHash) % 100) < percentage

\* ShouldReceiveUpdate: the set of answers the call may give; without a
\* device hash the answer is rng.Intn(100) < percentage.  ManifestHandler
\* holds the service and never calls it.
ShouldReceiveUpdate(percentage, deviceHash) ==
    IF percentage >= 100 THEN {TRUE}
    ELSE IF percentage <= 0 THEN {FALSE}
    ELSE IF deviceHash # <<>> THEN {deterministicRollout(percentage, deviceHash)}
    ELSE {n < percentage : n \in 0..99}

\* CalculateRolloutBucket
CalculateRolloutBucket(deviceHash) == HashSum(deviceHash) % 100

----------------------------------------------------------------------------
\* Manifest endpoint (ManifestHandler)

\* c.JSON(status, gin.H{"error": msg})
JsonReply(status, msg) ==
    [status |-> status, contentType |-> "application/json", part |-> "",
     body |-> [error |-> msg]]

\* sendMultipartResponse: HTTP 200, one part named partName.
sendMultipartResponse(partName, data) ==
    [status |-> 200, contentType |-> "multipart/mixed", part |-> partName,
     body |-> data]

\* Faulty variant of handleNoUpdateAvailable: the protocol-0 branch is
\* missing.
handleNoUpdateAvailable_AlwaysDirective(protocolVersion) ==
    sendMultipartResponse("directive", [type |-> "noUpdateAvailable"])

\* handleNoUpdateAvailable
handleNoUpdateAvailable(protocolVersion) ==
    IF protocolVersion = 0
    THEN JsonReply(404, "No update available")
    ELSE sendMultipartResponse("directive", [type |-> "noUpdateAvailable"])

\* Step 2 of Handle, taken when update.IsRollback.
RollbackReply(update, req, protocolVersion) ==
    IF req.currentUpdateId = req.embeddedUpdateId
    THEN handleNoUpdateAvailable(protocolVersion)
    ELSE sendMultipartResponse("directive",
            [type |-> "rollBackToEmbedded",
             parameters |-> [commitTime |-> FormatTime(update.createdAt)]])

\* Faulty variant of ClientHasUpdate: step 3 is skipped.
ClientHasUpdate_Skipped(update, currentUpdateID, protocolVersion) == FALSE

\* Step 3 of Handle: the client already runs this update.
ClientHasUpdate(update, currentUpdateID, protocolVersion) ==
    currentUpdateID = update.updateId /\ protocolVersion = 1

\* The content type switch of getAssetInfoFromMetadataOrFile.
AssetContentType(ext, isLaunchAsset) ==
    IF isLaunchAsset THEN "application/javascript"
    ELSE CASE ext = "png" -> "image/png"
           [] ext \in {"jpg", "jpeg"} -> "image/jpeg"
           [] ext = "gif" -> "image/gif"
           [] ext = "svg" -> "image/svg+xml"
           [] ext = "ttf" -> "font/ttf"
           [] ext = "otf" -> "font/otf"
           [] ext = "woff" -> "font/woff"
           [] ext = "woff2" -> "font/woff2"
           [] OTHER -> "application/octet-stream"

\* The tracking URL of one asset (metadata paths are relative).
AssetURL(assetPath, url, updateObjectID, isLaunchAssetParam, runtimeVersion, platform) ==
    Hostname \o "/api/assets?asset=" \o assetPath
             \o "&runtimeVersion=" \o runtimeVersion
             \o "&platform=" \o platform
             \o (IF url # "" THEN "&redirect=" \o url ELSE "")
             \o (IF isLaunchAssetParam = "true" THEN "&isLaunchAsset=true" ELSE "")
             \o (IF updateObjectID # "" THEN "&updateId=" \o updateObjectID ELSE "")

\* os.ReadFile under a record's bundlePath at manifest time: the bytes of the
\* file when the path is the bundle directory of an upload directory that
\* exists and the unpacked tree holds the file, else an error (None).  The
\* path of a rollback record is "".
ReadBundleFile(updateBundlePath, assetPath) ==
    LET holding == {n \in 1..MaxUploads :
                      /\ TempDir(n) \in DOMAIN tempDirs
                      /\ tempDirs[TempDir(n)] # None
                      /\ BundlePath(n, BundleRoot(tempDirs[TempDir(n)][1])) = updateBundlePath
                      /\ assetPath \in DOMAIN Unpacked(tempDirs[TempDir(n)][1]).files}
    IN IF holding = {} THEN None
       ELSE LET n == CHOOSE m \in holding : TRUE
            IN Some(Unpacked(tempDirs[TempDir(n)][1]).files[assetPath])

\* getAssetInfoFromMetadataOrFile: Some(entry), or None for the read error.
getAssetInfoFromMetadataOrFile(updateBundlePath, assetPath, ext, key, hash, url, updateObjectID, isLaunchAssetParam, runtimeVersion, platform, isLaunchAsset) ==
    LET fileExt == IF isLaunchAsset THEN ".bundle" ELSE "." \o ext
        baseAssetURL == AssetURL(assetPath, url, updateObjectID, isLaunchAssetParam,
                                 runtimeVersion, platform)
        data == ReadBundleFile(updateBundlePath, assetPath)
    IN IF key # "" /\ hash # ""
       THEN Some([hash |-> hash, key |-> key, fileExtension |-> fileExt,
                  contentType |-> AssetContentType(ext, isLaunchAsset),
                  url |-> baseAssetURL])
       ELSE IF data = None THEN None
       ELSE Some([hash |-> Base64URLEncode(ComputeSHA256HashBytes(data[1])),
                  key |-> Key32(data[1]), fileExtension |-> fileExt,
                  contentType |-> AssetContentType(ext, isLaunchAsset),
                  url |-> baseAssetURL])

\* The assets loop of sendManifest: entries in metadata order; an asset
\* whose entry cannot be built is skipped.
RECURSIVE BuildAssets(_, _, _, _)
BuildAssets(assetsList, updateBundlePath, runtimeVersion, platform) ==
    IF assetsList = <<>> THEN <<>>
    ELSE LET a == Head(assetsList)
             info == getAssetInfoFromMetadataOrFile(updateBundlePath, a.path, a.ext,
                        a.key, a.hash, a.url, "", "", runtimeVersion, platform, FALSE)
             rest == BuildAssets(Tail(assetsList), updateBundlePath, runtimeVersion, platform)
         IN IF info = None THEN rest ELSE <<info[1]>> \o rest

\* sendManifest
sendManifest(updateBundlePath, metadata, updateID, updateObjectID, createdAt, runtimeVersion, platform) ==
    IF platform \notin DOMAIN metadata.fileMetadata
    THEN JsonReply(500, "No metadata for platform")
    ELSE LET pm == metadata.fileMetadata[platform]
             assets == BuildAssets(pm.assets, updateBundlePath, runtimeVersion, platform)
             launchAsset == getAssetInfoFromMetadataOrFile(updateBundlePath, pm.bundle,
                               "bundle", pm.bundleKey, pm.bundleHash, pm.bundleUrl,
                               updateObjectID, "true", runtimeVersion, platform, TRUE)
         IN IF launchAsset = None
            THEN JsonReply(500, "Failed to get launch asset")
            ELSE sendMultipartResponse("manifest",
                    [id |-> updateID,
                     createdAt |-> createdAt,
                     runtimeVersion |-> runtimeVersion,
                     assets |-> assets,
                     launchAsset |-> launchAsset[1],
                     extra |-> [expoClient |-> metadata.expoConfig]])

\* expo-protocol-version: a missing header counts as "0".
ProtocolVersion(req) ==
    Atoi(IF req.protocolVersion = "" THEN "0" ELSE req.protocolVersion)

\* expo-channel-name: defaults to production.
RequestChannel(req) == IF req.channel = "" THEN ChannelProduction ELSE req.channel

\* The pre-checks of Handle: None when the request passes, else the 400.
PreCheck(req) ==
    IF req.platform # PlatformIOS /\ req.platform # PlatformAndroid
    THEN Some(JsonReply(400, "Unsupported platform. Expected either ios or android."))
    ELSE IF req.runtimeVersion = ""
    THEN Some(JsonReply(400, "No runtimeVersion provided."))
    ELSE IF req.projectSlug = ""
    THEN Some(JsonReply(400, "Project slug is required"))
    ELSE None

\* Steps 2 to 5 of Handle for the record FindLatest returned.
ServeCandidate(update, id, req) ==
    IF update.isRollback
    THEN RollbackReply(update, req, ProtocolVersion(req))
    ELSE IF ClientHasUpdate(update, req.currentUpdateId, ProtocolVersion(req))
    THEN handleNoUpdateAvailable(ProtocolVersion(req))
    ELSE IF update.metadata.nil
    THEN JsonReply(500, "Update metadata missing")
    ELSE sendManifest(update.bundlePath, update.metadata, update.updateId, Hex(id),
                      FormatTime(update.createdAt), req.runtimeVersion, req.platform)

\* Handle, after the pre-checks: found is what FindLatest returned.
Handle(s, req, found) ==
    IF found = None
    THEN handleNoUpdateAvailable(ProtocolVersion(req))
    ELSE ServeCandidate(s[found[1]], found[1], req)

----------------------------------------------------------------------------
\* Code signing (SigningService and the three call sites in ManifestHandler)

\* CreateSignatureHeader: the structured-field value over the part's JSON.
\* Signing with a loaded RSA key is taken to succeed.
CreateSignatureHeader(data) == [sig |-> data, keyid |-> "main"]

\* The signature handed to sendMultipartResponse, which sets the part header
\* expo-signature when it is not empty: None is the empty string.
PartSignature(expectSignature, isLoaded, data) ==
    IF expectSignature # "" /\ isLoaded
    THEN Some(CreateSignatureHeader(data))
    ELSE None

\* The expo-signature header of a reply: only a multipart reply has a part
\* to carry it.
ReplySignature(reply, expectSignature, isLoaded) ==
    IF reply.part = "" THEN None
    ELSE PartSignature(expectSignature, isLoaded, reply.body)

----------------------------------------------------------------------------
\* Admin authentication (middleware.AdminAuth)

\* A header value is a sequence of characters; <<>> is the missing header.
\* strings.SplitN(header, " ", 2): the text before the first space and the
\* text after it, or the whole text when it holds no space.
RECURSIVE SplitAtSpace(_, _)
SplitAtSpace(before, rest) ==
    IF rest = <<>> THEN <<before>>
    ELSE IF Head(rest) = " " THEN <<before, Tail(rest)>>
    ELSE SplitAtSpace(Append(before, Head(rest)), Tail(rest))

\* strings.ToLower on the letters the model's headers use.
ToLowerChar(c) ==
    CASE c = "B" -> "b"
      [] c = "E" -> "e"
      [] c = "A" -> "a"
      [] c = "R" -> "r"
      [] OTHER -> c

ToLower(chars) == [i \in DOMAIN chars |-> ToLowerChar(chars[i])]

\* Faulty variant of AdminAuth: any bearer token is taken.
AdminAuth_NoTokenCheck(adminSecret, authHeader) ==
    IF adminSecret = <<>> THEN None
    ELSE IF authHeader = <<>> THEN Some("Authorization header required")
    ELSE LET parts == SplitAtSpace(<<>>, authHeader)
         IN IF Len(parts) # 2 \/ ToLower(parts[1]) # <<"b", "e", "a", "r", "e", "r">>
            THEN Some("Invalid authorization format. Expected 'Bearer <token>'")
            ELSE None

\* AdminAuth: None when the request goes on to its handler, else the error
\* of the 401.
AdminAuth(adminSecret, authHeader) ==
    IF adminSecret = <<>> THEN None
    ELSE IF authHeader = <<>> THEN Some("Authorization header required")
    ELSE LET parts == SplitAtSpace(<<>>, authHeader)
         IN IF Len(parts) # 2 \/ ToLower(parts[1]) # <<"b", "e", "a", "r", "e", "r">>
            THEN Some("Invalid authorization format. Expected 'Bearer <token>'")
            ELSE IF parts[2] # adminSecret
            THEN Some("Invalid admin token")
            ELSE None

----------------------------------------------------------------------------
\* Object Store (CloudinaryService)

\* The folder of one update, "updates/<runtimeVersion>/<updateID>", kept as
\* its two path segments.
CloudFolder(runtimeVersion, updateID) ==
    [runtimeVersion |-> runtimeVersion, updateID |-> updateID]

FolderPath(folder) ==
    "updates/" \o folder.runtimeVersion \o "/" \o folder.updateID

\* UploadFile: the secure URL of one uploaded file.
SecureURL(folder, relPath) == "https://cdn/" \o FolderPath(folder) \o "/" \o relPath

\* UploadDirectory: the URL of every file below the bundle directory that
\* was uploaded, by its relative path; a file whose upload failed is logged
\* and left out.
UploadDirectory(folder, uploaded) ==
    [p \in uploaded |-> SecureURL(folder, p)]

\* Whether the path of `folder` is a prefix of the path of `other`.  No
\* update id of the model is a proper prefix of another one, except the
\* empty id of a rollback record.
HasPrefix(folder, other) ==
    /\ folder.runtimeVersion = other.runtimeVersion
    /\ (folder.updateID = "" \/ folder.updateID = other.updateID)

\* DeleteFolder: DeleteAssetsByPrefix removes everything stored under the
\* prefix.
DeleteFolder(folders, folder) == {f \in folders : ~HasPrefix(folder, f)}

\* RegisterUpdate after a successful upload: the URL of every uploaded file
\* that metadata names is written into its entry.
InjectUrls(metadata, urlMap) ==
    IF metadata.nil THEN metadata
    ELSE [metadata EXCEPT !.fileMetadata =
            [plat \in DOMAIN metadata.fileMetadata |->
                LET pm == metadata.fileMetadata[plat]
                    withBundle == IF pm.bundle \in DOMAIN urlMap
                                  THEN [pm EXCEPT !.bundleUrl = urlMap[pm.bundle]]
                                  ELSE pm
                IN [withBundle EXCEPT !.assets =
                      [i \in DOMAIN pm.assets |->
                          IF pm.assets[i].path \in DOMAIN urlMap
                          THEN [pm.assets[i] EXCEPT !.url = urlMap[pm.assets[i].path]]
                          ELSE pm.assets[i]]]]]

----------------------------------------------------------------------------
\* Asset endpoint (AssetsHandler) and the download counter

\* Paths are sequences of segments: the asset parameter is kept as
\* strings.Split(asset, "/") gives it ("/x" is <<"", "x">>, the empty string
\* is <<"">>), a path of the file system as the segments below the root.

\* The updates directory the server was started with.
UpdatesDir == <<"srv", "updates">>

\* The files and directories of the host.  The server never writes under
\* the updates directory: it holds what the operator put there.
FileSystem ==
    (<<"srv">> :> [kind |-> "dir", data |-> ""])
    @@ (<<"srv", "updates">> :> [kind |-> "dir", data |-> ""])
    @@ (<<"srv", "updates", "bundles">> :> [kind |-> "dir", data |-> ""])
    @@ (<<"srv", "updates", "bundles", "android-a.js">> :> [kind |-> "file", data |-> "x"])
    @@ (<<"srv", "secret">> :> [kind |-> "file", data |-> "s"])
    @@ (<<"secret">> :> [kind |-> "file", data |-> "t"])

\* The path starts with a slash.
Rooted(segs) == Len(segs) >= 2 /\ segs[1] = ""

\* filepath.Clean, segment by segment: empty and "." segments are dropped,
\* ".." removes the segment before it, is dropped at the root and is kept at
\* the head of a relative path.
RECURSIVE CleanSegs(_, _, _)
CleanSegs(rooted, out, rest) ==
    IF rest = <<>> THEN out
    ELSE LET seg == Head(rest)
         IN IF seg = "" \/ seg = "."
            THEN CleanSegs(rooted, out, Tail(rest))
            ELSE IF seg # ".."
            THEN CleanSegs(rooted, Append(out, seg), Tail(rest))
            ELSE IF out # <<>> /\ out[Len(out)] # ".."
            THEN CleanSegs(rooted, SubSeq(out, 1, Len(out) - 1), Tail(rest))
            ELSE IF rooted
            THEN CleanSegs(rooted, out, Tail(rest))
            ELSE CleanSegs(rooted, Append(out, ".."), Tail(rest))

\* filepath.Clean(assetName): no segments stands for "." (or "/" when rooted).
Clean(segs) == [rooted |-> Rooted(segs), segs |-> CleanSegs(Rooted(segs), <<>>, segs)]

\* The segment has two dots in a row.
HasDotDot(seg) == seg \in {"..", "a..b"}

\* strings.Contains(cleanPath, "..")
ContainsDotDot(clean) == \E i \in DOMAIN clean.segs : HasDotDot(clean.segs[i])

\* filepath.Join(h.updatesDir, filepath.FromSlash(cleanPath)): the leading
\* slash of a rooted path is one more separator.
Join(dir, clean) == dir \o clean.segs

\* os.Stat / os.Open of a path: "ok", or the error.
Lookup(fs, path) ==
    IF path \in DOMAIN fs THEN "ok"
    ELSE IF \E k \in 1..(Len(path) - 1) :
               /\ SubSeq(path, 1, k) \in DOMAIN fs
               /\ fs[SubSeq(path, 1, k)].kind = "file"
    THEN "ENOTDIR"
    ELSE "ENOENT"

\* primitive.ObjectIDFromHex: None for a string that is no ObjectID.
ObjectIDFromHex(hex) ==
    IF \E i \in 1..MaxUpdates : Hex(i) = hex
    THEN Some(CHOOSE i \in 1..MaxUpdates : Hex(i) = hex)
    ELSE None

\* Faulty variant of IncrementDownloads: the filter on _id is missing.
IncrementDownloads_EveryRecord(s, updateID) ==
    [i \in DOMAIN s |-> [s[i] EXCEPT !.downloads = @ + 1]]

\* IncrementDownloads: $inc downloads by 1 on the record with that id; an
\* invalid id and an id no record has change nothing.
IncrementDownloads(s, updateID) ==
    LET oid == ObjectIDFromHex(updateID)
    IN IF oid = None THEN s
       ELSE IF oid[1] \notin DOMAIN s THEN s
       ELSE [s EXCEPT ![oid[1]].downloads = @ + 1]

\* A JSON error reply of the asset endpoint.
AssetError(status, error) ==
    [track |-> FALSE,
     reply |-> [status |-> status, location |-> "", body |-> error, file |-> None]]

\* The local branch of AssetsHandler.Handle after the parameter checks: the
\* path is cleaned, refused when it contains "..", joined to the updates
\* directory, and the file there is opened and streamed.  Reading an opened
\* directory fails after the 200 has been written: no bytes follow.
StreamLocal(asset, dir, fs) ==
    LET cleanPath == Clean(asset)
        assetPath == Join(dir, cleanPath)
    IN IF ContainsDotDot(cleanPath)
       THEN AssetError(400, "Invalid asset path.")
       ELSE IF Lookup(fs, assetPath) = "ENOENT"
       THEN AssetError(404, "Asset does not exist.")
       ELSE IF Lookup(fs, assetPath) # "ok"
       THEN AssetError(500, "Failed to open asset.")
       ELSE [track |-> FALSE,
             reply |-> [status |-> 200, location |-> "",
                        body |-> fs[assetPath].data, file |-> Some(assetPath)]]

\* AssetsHandler.Handle: the reply, and whether a download increment is
\* started in the background.
AssetsHandle(req, dir) ==
    IF req.redirect # ""
    THEN [track |-> (req.isLaunchAsset = "true" /\ req.updateId # ""),
          reply |-> [status |-> 302, location |-> req.redirect, body |-> "",
                     file |-> None]]
    ELSE IF req.asset = <<"">>
    THEN AssetError(400, "No asset name provided.")
    ELSE IF req.platform # "ios" /\ req.platform # "android"
    THEN AssetError(400, "No platform provided. Expected \"ios\" or \"android\".")
    ELSE IF req.runtimeVersion = ""
    THEN AssetError(400, "No runtimeVersion provided.")
    ELSE StreamLocal(req.asset, dir, FileSystem)

----------------------------------------------------------------------------
\* Inputs

\* A multipart ingestion form; every field may be absent.
Form(projectSlug, runtimeVersion, channel, platform, rolloutPercentage, updateId, bundle) ==
    [projectSlug |-> projectSlug, runtimeVersion |-> runtimeVersion,
     channel |-> channel, platform |-> platform,
     rolloutPercentage |-> rolloutPercentage, updateId |-> updateId,
     bundle |-> bundle]

UploadForms ==
    { Form(Some("demo"), Some("1"), None, None, None, Some("u1"), Some(ZipBoth)),
      Form(Some("demo"), Some("1"), Some(ChannelProduction), Some(PlatformAndroid),
           Some("150"), Some("u2"), Some(ZipAndroid)),
      Form(Some("demo"), Some("2"), Some(ChannelStaging), None,
           Some("0"), Some("u1"), Some(ZipAndroid)),
      Form(Some("other"), Some("1"), Some(""), Some(PlatformIOS),
           Some("-5"), None, Some(ZipNoMetadata)),
      Form(Some("demo"), Some("1"), None, None,
           Some("50"), Some("u2"), Some(ZipMissingFiles)),
      Form(None, Some("1"), None, None, None, None, Some(ZipBoth)),
      Form(Some("demo"), Some("1"), None, None, None, None, None) }

\* The uploads of a publisher whose exports are complete.
ExportForms ==
    { Form(Some("demo"), Some("1"), None, None, None, Some("u1"), Some(ZipBoth)) }

\* The uploads of two projects whose exports get one updateId, and an upload
\* without updateId.
CloudForms ==
    { Form(Some("demo"), Some("1"), None, None, None, Some("u1"), Some(ZipAndroid)),
      Form(Some("other"), Some("1"), None, None, None, Some("u1"), Some(ZipAndroid)),
      Form(Some("demo"), Some("1"), None, None, None, None, Some(ZipAndroid)) }

\* What may go wrong during an ingestion whose request is well-formed and
\* whose files get to the disk: nothing, the InsertOne of the store.
InsertFaults == {"none", "insert"}

\* Milliseconds that pass between two calls of Create: none, so that both
\* documents get one BSON datetime, or some.
ClockSteps == {0, 999}

\* How often the clock moves on.
MaxTicks == 1

\* The last reading of the clock: once it is reached, the calls of Create that
\* follow fall into that millisecond.
MaxClock == 5678 + 999 * MaxTicks

\* The steps the clock may take from a reading.
Ticks(now) == {dt \in ClockSteps : now + dt <= MaxClock}

\* JSON bodies of PATCH /api/admin/updates/:id (both fields are pointers).
PatchBodies ==
    { [isActive |-> None, rolloutPercentage |-> None],
      [isActive |-> Some(FALSE), rolloutPercentage |-> None],
      [isActive |-> Some(TRUE), rolloutPercentage |-> None],
      [isActive |-> None, rolloutPercentage |-> Some(150)],
      [isActive |-> None, rolloutPercentage |-> Some(-5)] }

\* Query strings of POST /api/admin/updates/:id/rollback.
RollbackQueries ==
    { [runtimeVersion |-> Some("1"), channel |-> None] }

\* ObjectIDs an admin request may name: every id the store can hold, in the
\* store or not.
UpdateIds == 1..MaxUpdates

ProjectSlugs == {"demo", "other"}

\* The page size DeleteProject asks FindAll for.
ProjectUpdatesLimit == 1000

\* Manifest requests that pass the pre-checks, of clients of protocol
\* version 1 and, for two runtime versions, of clients that send no protocol
\* version, one with an explicit protocol version 0, and three that do not
\* pass.
Requests ==
    [projectSlug : ProjectSlugs,
     runtimeVersion : {"1", "2"},
     channel : {"", ChannelStaging},
     platform : {PlatformAndroid, PlatformIOS},
     protocolVersion : {"1"},
     currentUpdateId : {"u1", "u2"},
     embeddedUpdateId : {"u1"}]
    \cup
    [projectSlug : {"demo"},
     runtimeVersion : {"1", "2"},
     channel : {""},
     platform : {PlatformAndroid},
     protocolVersion : {""},
     currentUpdateId : {"u1"},
     embeddedUpdateId : {"u1"}]
    \cup
    { [projectSlug |-> "demo", runtimeVersion |-> "1", channel |-> "",
       platform |-> PlatformAndroid, protocolVersion |-> "0",
       currentUpdateId |-> "u1", embeddedUpdateId |-> "u1"],
      [projectSlug |-> "demo", runtimeVersion |-> "1", channel |-> "",
       platform |-> "web", protocolVersion |-> "1",
       currentUpdateId |-> "u1", embeddedUpdateId |-> "u1"],
      [projectSlug |-> "demo", runtimeVersion |-> "", channel |-> "",
       platform |-> PlatformAndroid, protocolVersion |-> "1",
       currentUpdateId |-> "u1", embeddedUpdateId |-> "u1"],
      [projectSlug |-> "", runtimeVersion |-> "1", channel |-> "",
       platform |-> PlatformAndroid, protocolVersion |-> "1",
       currentUpdateId |-> "u1", embeddedUpdateId |-> "u1"] }

\* The admin secret of the secured configuration, and Authorization headers:
\* missing, the secret as a bearer token (scheme in either case), another
\* token, another scheme, and a scheme without a token.
AdminSecret == <<"k", "1">>

AuthHeaders ==
    { <<>>,
      <<"B", "e", "a", "r", "e", "r", " ", "k", "1">>,
      <<"b", "e", "a", "r", "e", "r", " ", "k", "1">>,
      <<"B", "e", "a", "r", "e", "r", " ", "k", "2">>,
      <<"B", "a", "s", "i", "c", " ", "k", "1">>,
      <<"B", "e", "a", "r", "e", "r">> }

\* The Authorization headers that make a difference: AdminAuth reads the
\* header only when a secret is configured.
HeadersRead(adminSecret) ==
    IF adminSecret = <<>> THEN {<<>>} ELSE AuthHeaders

\* What may go wrong during one ingestion: nothing, parsing the multipart
\* body, os.MkdirTemp, creating the zip file, copying the upload into it,
\* unzipping it, the InsertOne of the store.
IngestFaults == {"none", "parse", "tempdir", "save", "write", "unzip", "insert"}

\* The texts of the errors the handlers append to their replies:
\* http.ErrNotMultipart of ParseMultipartForm, http.ErrMissingFile of
\* FormFile, zip.ErrFormat of Unzip, and the error of a store call that does
\* not get through.
ErrNotMultipart == "request Content-Type isn't multipart/form-data"

ErrMissingFile == "http: no such file"

ErrZipFormat == "zip: not a valid zip file"

ErrStore == "context deadline exceeded"

\* What may go wrong while the bundle directory is uploaded: nothing, the
\* upload of files, the directory walk.
UploadFaults == {"none", "file", "walk"}

\* What may happen at one file of the walk under the given faults: the file
\* is uploaded, its upload fails (the walk goes on), or the walk ends in an
\* error, at the file or at the entry after it.
FileOutcomes(faults) ==
    {[uploaded |-> TRUE, walkErr |-> FALSE] : f \in faults \cap {"none"}}
    \cup {[uploaded |-> FALSE, walkErr |-> FALSE] : f \in faults \cap {"file"}}
    \cup {[uploaded |-> u, walkErr |-> TRUE] : u \in BOOLEAN, f \in faults \cap {"walk"}}

\* Query strings of GET /api/assets.
AssetRequest(asset, platform, redirect, updateId, isLaunchAsset) ==
    [asset |-> asset, platform |-> platform, runtimeVersion |-> "1",
     redirect |-> redirect, updateId |-> updateId, isLaunchAsset |-> isLaunchAsset]

\* The asset parameter "bundles/android-a.js".
BundleAsset == <<"bundles", "android-a.js">>

AssetRequests ==
    { AssetRequest(BundleAsset, "android", "https://cdn/a.js", Hex(1), "true"),
      AssetRequest(BundleAsset, "android", "https://cdn/a.js", Hex(2), "true"),
      AssetRequest(BundleAsset, "android", "https://cdn/a.js", Hex(1), ""),
      AssetRequest(BundleAsset, "android", "https://cdn/a.js", "", "true"),
      AssetRequest(BundleAsset, "android", "https://cdn/a.js", "zz", "true"),
      AssetRequest(BundleAsset, "android", "", Hex(1), "true"),
      AssetRequest(<<"assets", "a1">>, "android", "", "", ""),
      AssetRequest(BundleAsset, "web", "", "", ""),
      AssetRequest(<<"..", "secret">>, "ios", "", "", ""),
      AssetRequest(<<"">>, "android", "", "", "") }

\* Longest device hash, in characters.
MaxHashLen == 2

\* Characters of a device hash: "0", "a", "z".
HashChars == {48, 97, 122}

\* Device hashes, the empty one included.
DeviceHashes == UNION {[1..n -> HashChars] : n \in 0..MaxHashLen}

\* Rollout percentages, with values on both sides of 0..100.
Percentages == (0 - 1)..101

\* Longest asset parameter, in segments.
MaxSegments == 3

\* Segments an asset parameter is made of.
PathSegments == {"", ".", "..", "a..b", "srv", "secret", "bundles", "android-a.js"}

\* Every asset parameter of up to MaxSegments segments.
AssetPaths == UNION {[1..n -> PathSegments] : n \in 1..MaxSegments}

\* Requests for a local file, one for every asset parameter.
PathRequests == {AssetRequest(asset, "android", "", "", "") : asset \in AssetPaths}

\* The projectSlug path parameter of an asset request: empty on the legacy
\* route /api/assets.
AssetRoutes == {"", "demo"}

\* What may go wrong in the store during one request: nothing, a read
\* (FindOne) or a write (UpdateOne, DeleteOne) returning an error.
StoreFaults == {"none", "read", "write"}

\* Values of the request header expo-expect-signature.
ExpectSignatures == {"", "true"}

----------------------------------------------------------------------------
\* State machine

Idle == [op |-> "idle"]

\* The server as a development setup starts it: no admin secret, no signing
\* key, the database connected, and Object Store credentials from which no
\* client could be made (NewCloudinaryService returned an error, the service
\* is nil and IsConnected() is false).
DevConfig ==
    [adminSecret |-> <<>>, cloudinary |-> FALSE, keyLoaded |-> FALSE, database |-> TRUE]

\* The server after startup, whatever its configuration, over an empty
\* updates collection.
Started ==
    /\ store = <<>>
    /\ nextId = 1
    /\ clock = 5678
    /\ acked = {}
    /\ last = Idle
    /\ tempDirs = <<>>
    /\ cdn = {}
    /\ cdnDeleting = EmptyBag
    /\ pending = <<>>
    /\ nextUpload = 1
    /\ running = EmptyBag

Init ==
    /\ Started
    /\ cfg = DevConfig

\* A handler call starts to wait, with its local variables.
Suspend(call) ==
    /\ BagCardinality(running) < MaxRunning
    /\ running' = running (+) SetToBag({call})

\* A waiting handler call goes on and waits again, with new local variables.
Resume(call, next) == running' = (running (-) SetToBag({call})) (+) SetToBag({next})

\* A waiting handler call goes on to its end.
Finish(call) == running' = running (-) SetToBag({call})

\* The reply of AdminAuth to a request it stops, on whichever admin route:
\* the handler does not run.
Unauthorized(auth, error) ==
    /\ last' = [op |-> "adminAuth", status |-> 401, auth |-> auth, error |-> error]
    /\ UNCHANGED <<store, nextId, clock, acked, tempDirs, cdn, cdnDeleting, pending,
                   nextUpload, running>>

\* Faulty variant of RegisterFailed: the error reply leaves a partial record
\* behind.
RegisterFailed_PartialRecord(auth, status, form, error) ==
    /\ last' = [op |-> "register", status |-> status, created |-> None, form |-> form,
                error |-> error, auth |-> auth]
    /\ store' = RepoInsert(store, nextId, RepoCreate(NewRollback(None, None), clock))
    /\ UNCHANGED <<nextId, clock, acked>>

\* An ingestion that ends in an error reply: every error return of
\* RegisterUpdate comes before updateRepo.Create has stored anything.
RegisterFailed(auth, status, form, error) ==
    /\ last' = [op |-> "register", status |-> status, created |-> None, form |-> form,
                error |-> error, auth |-> auth]
    /\ UNCHANGED <<store, nextId, clock, acked>>

\* The 503 of a handler whose update repository is nil.
NoDatabase(op, auth) ==
    /\ last' = [op |-> op, status |-> 503, auth |-> auth,
                error |-> "Database not connected", storeError |-> FALSE]
    /\ UNCHANGED <<store, nextId, clock, acked, tempDirs, cdn, cdnDeleting, pending,
                   nextUpload, running>>

\* The deferred os.RemoveAll(tempDir) that a call of RegisterUpdate waits to
\* run, once the temp directory is made.
Cleanup(n) == [op |-> "register", phase |-> "return", dir |-> TempDir(n)]

\* POST /api/admin/updates, from the request to the first call the handler
\* waits for, for the given forms and the given faults of the ingestion: the
\* form is parsed and checked, the temp directory made, the zip saved and
\* unpacked into it, the bundle directory found and the models.Update value
\* built.  All of this acts on the request and on the handler's own temp
\* directory, which no other request names.  The handler then calls
\* projectRepo.EnsureProjectExists and waits for its upsert.
RegisterUpdateOf(forms, faults) ==
    /\ last = Idle
    /\ UNCHANGED <<cfg, cdn, cdnDeleting, pending>>
    /\ \E auth \in HeadersRead(cfg.adminSecret) :
         LET denied == AdminAuth(cfg.adminSecret, auth)
         IN IF denied # None
            THEN Unauthorized(auth, denied[1])
            ELSE IF ~cfg.database
            THEN NoDatabase("register", auth)
            ELSE \E form \in forms,
                    fault \in faults \cap {"none", "parse", "tempdir", "save", "write", "unzip"} :
              IF fault = "parse"
              THEN /\ RegisterFailed(auth, 400, form, "Failed to parse form: " \o ErrNotMultipart)
                   /\ UNCHANGED <<tempDirs, nextUpload, running>>
              ELSE IF PostForm(form.projectSlug) = "" \/ PostForm(form.runtimeVersion) = ""
              THEN /\ RegisterFailed(auth, 400, form, "projectSlug and runtimeVersion are required")
                   /\ UNCHANGED <<tempDirs, nextUpload, running>>
              ELSE IF form.bundle = None
              THEN /\ RegisterFailed(auth, 400, form, "Bundle file is required: " \o ErrMissingFile)
                   /\ UNCHANGED <<tempDirs, nextUpload, running>>
              ELSE IF fault = "tempdir"
              THEN /\ RegisterFailed(auth, 500, form, "Failed to create temp dir")
                   /\ UNCHANGED <<tempDirs, nextUpload, running>>
              ELSE IF fault \in {"save", "write", "unzip"}
              THEN /\ nextUpload <= MaxUploads
                   /\ RegisterFailed(auth, 500, form,
                         CASE fault = "save" -> "Failed to save zip file"
                           [] fault = "write" -> "Failed to write zip file"
                           [] OTHER -> "Failed to unzip bundle: " \o ErrZipFormat)
                   /\ tempDirs' = (TempDir(nextUpload) :> None) @@ tempDirs
                   /\ nextUpload' = nextUpload + 1
                   /\ Suspend(Cleanup(nextUpload))
              ELSE /\ nextUpload <= MaxUploads
                   /\ tempDirs' = (TempDir(nextUpload) :> Some(form.bundle[1])) @@ tempDirs
                   /\ nextUpload' = nextUpload + 1
                   /\ Suspend([op |-> "register", phase |-> "ensure",
                               n |-> nextUpload, auth |-> auth, form |-> form,
                               update |-> NewUpdate(form, nextUpload)])
                   /\ UNCHANGED <<store, nextId, clock, acked, last>>

\* POST /api/admin/updates
RegisterUpdate == RegisterUpdateOf(UploadForms, IngestFaults)

\* POST /api/admin/updates by a publisher whose exports are complete, on a
\* server where nothing fails.
RegisterExport == RegisterUpdateOf(ExportForms, {"none"})

\* EnsureProjectExists returns to RegisterUpdate, which does not look at its
\* result (the projects collection is not part of the state): the handler
\* reads metadata.json and expoConfig.json in its temp directory and hashes
\* the files.  It then waits for the Object Store when it is connected; else
\* it calls Create, which stamps the document with time.Now() and waits for
\* the InsertOne.
RegisterEnsureProject ==
    /\ last = Idle
    /\ \E call \in BagToSet(running) :
         /\ call.op = "register"
         /\ call.phase = "ensure"
         /\ LET tree == Unpacked(tempDirs[TempDir(call.n)][1])
                update == [call.update EXCEPT !.metadata = ParseMetadata(tree)]
            IN IF cfg.cloudinary
               THEN /\ Resume(call, [op |-> "register", phase |-> "upload",
                                     n |-> call.n, auth |-> call.auth, form |-> call.form,
                                     update |-> update,
                                     todo |-> WalkFiles(tree),
                                     uploaded |-> {}])
                    /\ UNCHANGED clock
               ELSE \E dt \in Ticks(clock) :
                    /\ Resume(call, [op |-> "register", phase |-> "create",
                                     n |-> call.n, auth |-> call.auth, form |-> call.form,
                                     update |-> RepoCreate(update, clock + dt)])
                    /\ clock' = clock + dt
    /\ UNCHANGED <<store, nextId, acked, last, cfg, tempDirs, cdn, cdnDeleting, pending,
                   nextUpload>>

\* RegisterUpdate goes on with UploadDirectory, under the given faults of
\* the upload: one step per file of the walk, which waits for UploadFile.
\* The Object Store is kept by folder, and the folder is there once one file
\* is; the order in which the walk meets the files is not seen at that
\* grain, and the model takes them in one order.  After the last file, or
\* after a walk error, which leaves no URL to write into the metadata, the
\* handler calls Create, which stamps the document with time.Now() and waits
\* for the InsertOne.
RegisterUploadOf(uploads) ==
    /\ last = Idle
    /\ \E call \in BagToSet(running), out \in FileOutcomes(uploads) :
         /\ call.op = "register"
         /\ call.phase = "upload"
         /\ call.todo # {}
         /\ LET folder == CloudFolder(call.update.runtimeVersion, call.update.updateId)
                path == CHOOSE p \in call.todo : TRUE
                todo == call.todo \ {path}
                uploaded == IF out.uploaded THEN call.uploaded \cup {path}
                            ELSE call.uploaded
            IN /\ cdn' = IF out.uploaded THEN cdn \cup {folder} ELSE cdn
               /\ IF todo # {} /\ ~out.walkErr
                  THEN /\ Resume(call, [call EXCEPT !.todo = todo,
                                                    !.uploaded = uploaded])
                       /\ UNCHANGED clock
                  ELSE \E dt \in Ticks(clock) :
                       /\ Resume(call,
                             [op |-> "register", phase |-> "create", n |-> call.n,
                              auth |-> call.auth, form |-> call.form,
                              update |->
                                  RepoCreate(IF out.walkErr THEN call.update
                                             ELSE [call.update EXCEPT !.metadata =
                                                     InjectUrls(@, UploadDirectory(folder,
                                                                                   uploaded))],
                                             clock + dt)])
                       /\ clock' = clock + dt
    /\ UNCHANGED <<store, nextId, acked, last, cfg, tempDirs, cdnDeleting, pending,
                   nextUpload>>

\* The upload of RegisterUpdate, which may fail.
RegisterUpload == RegisterUploadOf(UploadFaults)

\* The upload of RegisterUpdate on a server where nothing fails.
RegisterExportUpload == RegisterUploadOf({"none"})

\* The InsertOne of the Create of RegisterUpdate takes effect, or fails,
\* under the given faults of the ingestion, and the handler builds its
\* reply: 201, or 500 when the InsertOne failed.  The document is the one
\* Create stamped before the call.  The handler then returns.
RegisterCreateOf(faults) ==
    /\ last = Idle
    /\ \E call \in BagToSet(running), fault \in faults \cap {"none", "insert"} :
         /\ call.op = "register"
         /\ call.phase = "create"
         /\ Resume(call, Cleanup(call.n))
         /\ IF fault = "insert"
            THEN RegisterFailed(call.auth, 500, call.form,
                                "failed to insert update: " \o ErrStore)
            ELSE /\ nextId <= MaxUpdates
                 /\ store' = RepoInsert(store, nextId, call.update)
                 /\ nextId' = nextId + 1
                 /\ acked' = acked \cup {nextId}
                 /\ UNCHANGED clock
                 /\ last' = [op |-> "register", status |-> 201, created |-> Some(nextId),
                             form |-> call.form, error |-> "", auth |-> call.auth]
    /\ UNCHANGED <<cfg, tempDirs, cdn, cdnDeleting, pending, nextUpload>>

\* The Create of RegisterUpdate, which may fail.
RegisterCreate == RegisterCreateOf(IngestFaults)

\* The Create of RegisterUpdate over a store that answers.
RegisterExportCreate == RegisterCreateOf({"none"})

\* POST /api/admin/updates by publishers who share an updateId.
RegisterShared == RegisterUpdateOf(CloudForms, InsertFaults)

\* RegisterUpdate returns: the deferred os.RemoveAll removes the temp
\* directory, after the reply was built.
RegisterReturn ==
    /\ last = Idle
    /\ \E call \in BagToSet(running) :
         /\ call.op = "register"
         /\ call.phase = "return"
         /\ tempDirs' = [d \in DOMAIN tempDirs \ {call.dir} |-> tempDirs[d]]
         /\ Finish(call)
    /\ UNCHANGED <<store, nextId, clock, acked, last, cfg, cdn, cdnDeleting, pending,
                   nextUpload>>

\* The $set document UpdateUpdate builds from the body.
PatchSet(body) ==
    CASE body.isActive # None /\ body.rolloutPercentage # None ->
            [isActive |-> body.isActive[1],
             rolloutPercentage |-> body.rolloutPercentage[1]]
      [] body.isActive # None /\ body.rolloutPercentage = None ->
            [isActive |-> body.isActive[1]]
      [] body.isActive = None /\ body.rolloutPercentage # None ->
            [rolloutPercentage |-> body.rolloutPercentage[1]]
      [] OTHER -> <<>>

\* PATCH /api/admin/updates/:id, under the given store faults: one call to
\* the store.
UpdateUpdateOf(bodies, faults) ==
    /\ last = Idle
    /\ \E auth \in HeadersRead(cfg.adminSecret) :
         LET denied == AdminAuth(cfg.adminSecret, auth)
         IN IF denied # None
            THEN Unauthorized(auth, denied[1])
            ELSE IF ~cfg.database
            THEN NoDatabase("patch", auth)
            ELSE \E id \in UpdateIds, body \in bodies, fault \in faults :
                 /\ IF DOMAIN PatchSet(body) = {}
                    THEN /\ last' = [op |-> "patch", status |-> 400, id |-> id, body |-> body,
                                     auth |-> auth, storeError |-> FALSE]
                         /\ UNCHANGED store
                    ELSE IF fault = "write" \/ id \notin DOMAIN store
                    THEN /\ last' = [op |-> "patch", status |-> 500, id |-> id, body |-> body,
                                     auth |-> auth, storeError |-> (fault = "write")]
                         /\ UNCHANGED store
                    ELSE /\ store' = RepoUpdate(store, id, PatchSet(body))
                         /\ last' = [op |-> "patch", status |-> 200, id |-> id, body |-> body,
                                     auth |-> auth, storeError |-> FALSE]
                 /\ UNCHANGED <<nextId, clock, acked, tempDirs, cdn, cdnDeleting, pending,
                                nextUpload, running>>
    /\ UNCHANGED cfg

\* PATCH /api/admin/updates/:id over a store that answers.
UpdateUpdate == UpdateUpdateOf(PatchBodies, {"none"})

\* POST /api/admin/updates/:id/rollback, from the request to the InsertOne
\* of Create: the record is built from the query string and stamped with
\* time.Now(); the handler then waits for the InsertOne.
CreateRollback ==
    /\ last = Idle
    /\ \E auth \in HeadersRead(cfg.adminSecret) :
         LET denied == AdminAuth(cfg.adminSecret, auth)
         IN IF denied # None
            THEN Unauthorized(auth, denied[1])
            ELSE IF ~cfg.database
            THEN NoDatabase("rollback", auth)
            ELSE \E id \in UpdateIds, q \in RollbackQueries, dt \in Ticks(clock) :
                 /\ nextId <= MaxUpdates
                 /\ Suspend([op |-> "rollback", phase |-> "create", previousId |-> id,
                             auth |-> auth,
                             update |-> RepoCreate(NewRollback(q.runtimeVersion, q.channel),
                                                   clock + dt)])
                 /\ clock' = clock + dt
                 /\ UNCHANGED <<store, nextId, acked, last, tempDirs, cdn, cdnDeleting,
                                pending, nextUpload>>
    /\ UNCHANGED cfg

\* The InsertOne of the Create of CreateRollback takes effect, or fails,
\* under the given store faults, and the handler builds its reply.
CreateRollbackCreateOf(faults) ==
    /\ last = Idle
    /\ \E call \in BagToSet(running), fault \in faults \cap {"none", "write"} :
         /\ call.op = "rollback"
         /\ Finish(call)
         /\ IF fault = "write"
            THEN /\ last' = [op |-> "rollback", status |-> 500, created |-> None,
                             previousId |-> call.previousId, auth |-> call.auth,
                             storeError |-> TRUE]
                 /\ UNCHANGED <<store, nextId>>
            ELSE /\ nextId <= MaxUpdates
                 /\ store' = RepoInsert(store, nextId, call.update)
                 /\ last' = [op |-> "rollback", status |-> 201, created |-> Some(nextId),
                             previousId |-> call.previousId, auth |-> call.auth,
                             storeError |-> FALSE]
                 /\ nextId' = nextId + 1
    /\ UNCHANGED <<clock, acked, cfg, tempDirs, cdn, cdnDeleting, pending, nextUpload>>

\* The InsertOne of CreateRollback over a store that answers.
CreateRollbackCreate == CreateRollbackCreateOf({"none"})

\* The folder DeleteUpdate and DeleteProject name for a record they read.
FolderOf(update) == CloudFolder(update.runtimeVersion, update.updateId)

\* DELETE /api/admin/updates/:id, from the request to the answer of
\* FindByID, under the given store faults.  An error of FindByID is answered
\* 404; a record that is not there is no error (nil, nil).  The handler then
\* waits for the Delete, holding of the record it read what it uses later,
\* the folder.
DeleteUpdateOf(faults) ==
    /\ last = Idle
    /\ \E auth \in HeadersRead(cfg.adminSecret) :
         LET denied == AdminAuth(cfg.adminSecret, auth)
         IN IF denied # None
            THEN Unauthorized(auth, denied[1])
            ELSE IF ~cfg.database
            THEN NoDatabase("delete", auth)
            ELSE \E id \in UpdateIds, fault \in faults \cap {"none", "read"} :
                 IF fault = "read"
                 THEN /\ last' = [op |-> "delete", status |-> 404, id |-> id, auth |-> auth,
                                  storeError |-> TRUE, error |-> "Update not found"]
                      /\ UNCHANGED <<store, nextId, clock, acked, tempDirs, cdn,
                                     cdnDeleting, pending, nextUpload, running>>
                 ELSE /\ Suspend([op |-> "delete", phase |-> "delete", id |-> id,
                                  auth |-> auth,
                                  update |-> IF id \in DOMAIN store
                                             THEN Some(FolderOf(store[id])) ELSE None])
                      /\ UNCHANGED <<store, nextId, clock, acked, last, tempDirs, cdn,
                                     cdnDeleting, pending, nextUpload>>
    /\ UNCHANGED cfg

\* DELETE /api/admin/updates/:id over a store that answers.
DeleteUpdate == DeleteUpdateOf({"none"})

\* DeleteUpdate goes on with updateRepo.Delete, under the given store
\* faults, and builds its reply: 500 when the DeleteOne failed or deleted
\* nothing, else 200, after it started the deletion of the folder of the
\* record FindByID had returned.
DeleteUpdateDeleteOf(faults) ==
    /\ last = Idle
    /\ \E call \in BagToSet(running), fault \in faults \cap {"none", "write"} :
         /\ call.op = "delete"
         /\ Finish(call)
         /\ IF fault = "write"
            THEN /\ last' = [op |-> "delete", status |-> 500, id |-> call.id,
                             auth |-> call.auth, storeError |-> TRUE,
                             error |-> "failed to delete: " \o ErrStore]
                 /\ UNCHANGED <<store, cdnDeleting>>
            ELSE IF call.id \notin DOMAIN store
            THEN /\ last' = [op |-> "delete", status |-> 500, id |-> call.id,
                             auth |-> call.auth, storeError |-> FALSE,
                             error |-> "update not found"]
                 /\ UNCHANGED <<store, cdnDeleting>>
            ELSE /\ store' = RepoDelete(store, call.id)
                 /\ IF call.update # None /\ cfg.cloudinary
                    THEN /\ BagCardinality(cdnDeleting) < MaxFolderCalls
                         /\ cdnDeleting' = cdnDeleting (+) SetToBag({call.update[1]})
                    ELSE UNCHANGED cdnDeleting
                 /\ last' = [op |-> "delete", status |-> 200, id |-> call.id,
                             auth |-> call.auth, storeError |-> FALSE, error |-> ""]
         /\ acked' = {a \in acked : a \in DOMAIN store'}
    /\ UNCHANGED <<nextId, clock, cfg, tempDirs, cdn, pending, nextUpload>>

\* The Delete of DeleteUpdate over a store that answers.
DeleteUpdateDelete == DeleteUpdateDeleteOf({"none"})

\* FindAll(projectSlug = slug, limit ProjectUpdatesLimit): the newest records
\* of the project, at most the limit.
ProjectUpdates(s, slug) ==
    LET all == {i \in DOMAIN s : s[i].projectSlug = slug}
    IN {i \in all :
          Cardinality({j \in all : s[j].createdAt > s[i].createdAt}) < ProjectUpdatesLimit}

\* The DeleteFolder calls DeleteProject starts for the records FindAll
\* returned: one for every record, also when two records name one folder.
FolderCalls(s, ids) ==
    [folder \in {FolderOf(s[i]) : i \in ids} |->
        Cardinality({i \in ids : FolderOf(s[i]) = folder})]

\* DELETE /api/admin/projects/:slug, from the request to the answer of
\* FindAll: for every record it returned a DeleteFolder call is started (none
\* after an error, which is dropped).  The handler then waits for
\* DeleteByProjectSlug.  Without a database neither call is made and the
\* delete in the projects collection fails.
DeleteProject ==
    /\ last = Idle
    /\ \E auth \in HeadersRead(cfg.adminSecret) :
         LET denied == AdminAuth(cfg.adminSecret, auth)
         IN IF denied # None
            THEN Unauthorized(auth, denied[1])
            ELSE \E slug \in ProjectSlugs, findAllOk \in BOOLEAN :
                 IF ~cfg.database
                 THEN /\ last' = [op |-> "deleteProject", status |-> 500, slug |-> slug,
                                  auth |-> auth]
                      /\ UNCHANGED <<store, nextId, clock, acked, tempDirs, cdn,
                                     cdnDeleting, pending, nextUpload, running>>
                 ELSE /\ cdnDeleting' =
                           IF findAllOk /\ cfg.cloudinary
                           THEN cdnDeleting (+) FolderCalls(store, ProjectUpdates(store, slug))
                           ELSE cdnDeleting
                      /\ BagCardinality(cdnDeleting') <= MaxFolderCalls
                      /\ Suspend([op |-> "deleteProject", phase |-> "updates",
                                  slug |-> slug, auth |-> auth])
                      /\ UNCHANGED <<store, nextId, clock, acked, last, tempDirs, cdn,
                                     pending, nextUpload>>
    /\ UNCHANGED cfg

\* DeleteProject goes on with DeleteByProjectSlug, whose error is dropped.
\* The handler then waits for the delete in the projects collection.
DeleteProjectUpdates ==
    /\ last = Idle
    /\ \E call \in BagToSet(running), deleteManyOk \in BOOLEAN :
         /\ call.op = "deleteProject"
         /\ call.phase = "updates"
         /\ store' = IF deleteManyOk THEN RepoDeleteByProjectSlug(store, call.slug)
                     ELSE store
         /\ acked' = {a \in acked : a \in DOMAIN store'}
         /\ Resume(call, [call EXCEPT !.phase = "project"])
    /\ UNCHANGED <<nextId, clock, last, cfg, tempDirs, cdn, cdnDeleting, pending,
                   nextUpload>>

\* DeleteProject goes on with projectRepo.Delete and builds its reply, which
\* depends on that delete alone.
DeleteProjectDelete ==
    /\ last = Idle
    /\ \E call \in BagToSet(running), projectDeleteOk \in BOOLEAN :
         /\ call.op = "deleteProject"
         /\ call.phase = "project"
         /\ last' = [op |-> "deleteProject",
                     status |-> IF projectDeleteOk THEN 200 ELSE 500,
                     slug |-> call.slug, auth |-> call.auth]
         /\ Finish(call)
    /\ UNCHANGED <<store, nextId, clock, acked, cfg, tempDirs, cdn, cdnDeleting, pending,
                   nextUpload>>

\* GET /api/:projectSlug/manifest (and the legacy /api/manifest, whose
\* project slug is empty), for clients that send one of the given values of
\* expo-expect-signature, under the given store faults: one call to the
\* store.  An error of FindLatest is handled like a lookup that found nothing.
ManifestFor(expects, faults) ==
    /\ last = Idle
    /\ \E req \in Requests, expect \in expects, fault \in faults :
         IF PreCheck(req) # None
         THEN last' = [op |-> "manifest", req |-> req, found |-> None,
                       reply |-> PreCheck(req)[1], expect |-> expect,
                       signature |-> None, storeError |-> FALSE]
         ELSE IF ~cfg.database
         THEN last' = [op |-> "manifest", req |-> req, found |-> None,
                       reply |-> JsonReply(503, "Database not connected"),
                       expect |-> expect, signature |-> None, storeError |-> FALSE]
         ELSE IF fault = "read"
         THEN LET reply == handleNoUpdateAvailable(ProtocolVersion(req))
              IN last' = [op |-> "manifest", req |-> req, found |-> None,
                          reply |-> reply, expect |-> expect,
                          signature |-> ReplySignature(reply, expect, cfg.keyLoaded),
                          storeError |-> TRUE]
         ELSE \E found \in FindLatest(store, req.projectSlug, req.runtimeVersion,
                                      RequestChannel(req), req.platform) :
                LET reply == Handle(store, req, found)
                IN last' = [op |-> "manifest", req |-> req, found |-> found,
                            reply |-> reply, expect |-> expect,
                            signature |-> ReplySignature(reply, expect, cfg.keyLoaded),
                            storeError |-> FALSE]
    /\ UNCHANGED <<store, nextId, clock, acked, cfg, tempDirs, cdn, cdnDeleting, pending,
                   nextUpload, running>>

\* Manifest requests of clients that expect no signature.
Manifest == ManifestFor({""}, {"none"})

\* Manifest requests of clients, some of which expect a signature.
ManifestSigned == ManifestFor(ExpectSignatures, {"none"})

\* The sum of the download counters.
RECURSIVE TotalDownloads(_, _)
TotalDownloads(s, ids) ==
    IF ids = {} THEN 0
    ELSE LET i == CHOOSE j \in ids : TRUE
         IN s[i].downloads + TotalDownloads(s, ids \ {i})

\* GET /api/:projectSlug/assets and the legacy GET /api/assets: the handler
\* does not read the path parameter.
AssetOf(requests) ==
    /\ last = Idle
    /\ \E req \in requests, projectSlug \in AssetRoutes :
         LET out == AssetsHandle(req, UpdatesDir)
         IN /\ last' = [op |-> "asset", projectSlug |-> projectSlug, req |-> req,
                        reply |-> out.reply]
            /\ IF out.track /\ cfg.database
               THEN /\ TotalDownloads(store, DOMAIN store) + Len(pending) < MaxDownloads
                    /\ pending' = Append(pending, req.updateId)
               ELSE UNCHANGED pending
    /\ UNCHANGED <<store, nextId, clock, acked, cfg, tempDirs, cdn, cdnDeleting,
                   nextUpload, running>>

\* Asset requests of clients that follow the URLs of a manifest, and some
\* malformed ones.
Asset == AssetOf(AssetRequests)

\* Asset requests for a local file under any name.
AssetAnyPath == AssetOf(PathRequests)

\* The background IncrementDownloads call for one updateId runs; the calls
\* in flight run in any order.
RunIncrementOf(updateId) ==
    /\ \E i \in DOMAIN pending, done \in BOOLEAN :
         /\ pending[i] = updateId
         /\ store' = IF done THEN IncrementDownloads(store, pending[i]) ELSE store
         /\ pending' = [j \in 1..(Len(pending) - 1) |->
                          IF j < i THEN pending[j] ELSE pending[j + 1]]
    /\ UNCHANGED <<nextId, clock, acked, last, cfg, tempDirs, cdn, cdnDeleting,
                   nextUpload, running>>

\* The updateId values asset requests carry.
TrackedIds == {req.updateId : req \in AssetRequests}

\* One of the background IncrementDownloads calls runs.
RunIncrement == \E updateId \in TrackedIds : RunIncrementOf(updateId)

\* What one background DeleteFolder call may end in: both requests done,
\* DeleteAssetsByPrefix failed, or Admin.DeleteFolder failed after the files
\* were removed.
DeleteFolderOutcomes == {"ok", "prefix", "folder"}

\* One of the background DeleteFolder calls runs, whenever the scheduler
\* lets it: also while the reply of the request that started it is being
\* written.  The other calls for the same folder are still to run.  A
\* failure is logged.
RunDeleteFolder ==
    /\ \E folder \in BagToSet(cdnDeleting), outcome \in DeleteFolderOutcomes :
         /\ cdn' = IF outcome = "prefix" THEN cdn ELSE DeleteFolder(cdn, folder)
         /\ cdnDeleting' = cdnDeleting (-) SetToBag({folder})
    /\ UNCHANGED <<store, nextId, clock, acked, last, cfg, tempDirs, pending,
                   nextUpload, running>>

\* The response has been written; the server takes the next step.
Respond ==
    /\ last # Idle
    /\ last' = Idle
    /\ UNCHANGED <<store, nextId, clock, acked, cfg, tempDirs, cdn, cdnDeleting, pending,
                   nextUpload, running>>

\* The store, its admin routes and the manifest endpoint under the
\* development configuration: every request is handled by a goroutine of its
\* own, so that a request is taken up while the handlers of others wait.  The
\* uploads are those of a publisher whose exports are complete; UploadSpec
\* has the others.
Next ==
    \/ RegisterExport
    \/ RegisterEnsureProject
    \/ RegisterExportCreate
    \/ RegisterReturn
    \/ UpdateUpdate
    \/ CreateRollback
    \/ CreateRollbackCreate
    \/ DeleteUpdate
    \/ DeleteUpdateDelete
    \/ DeleteProject
    \/ DeleteProjectUpdates
    \/ DeleteProjectDelete
    \/ Manifest
    \/ Respond

Spec == Init /\ [][Next]_vars

\* The admin routes behind AdminAuth: a request is taken up, or refused, while
\* the handlers of others wait.  Three deployments: one without an admin
\* secret, one with a secret that two of the headers carry, and one with
\* another secret, which one header carries, with the Object Store and its
\* background folder deletions.  The PATCH requests are those that
\* deactivate an update.
AuthInit ==
    /\ Started
    /\ cfg \in {[adminSecret |-> <<>>, cloudinary |-> FALSE, keyLoaded |-> FALSE,
                  database |-> TRUE],
                 [adminSecret |-> AdminSecret, cloudinary |-> FALSE, keyLoaded |-> FALSE,
                  database |-> TRUE],
                 [adminSecret |-> <<"k", "2">>, cloudinary |-> TRUE, keyLoaded |-> FALSE,
                  database |-> TRUE]}

AuthNext ==
    \/ RegisterExport
    \/ RegisterExportUpload
    \/ RegisterEnsureProject
    \/ RegisterExportCreate
    \/ RegisterReturn
    \/ UpdateUpdateOf({body \in PatchBodies : body.isActive = Some(FALSE)}, {"none"})
    \/ CreateRollback
    \/ CreateRollbackCreate
    \/ DeleteUpdate
    \/ DeleteUpdateDelete
    \/ DeleteProject
    \/ DeleteProjectUpdates
    \/ DeleteProjectDelete
    \/ RunDeleteFolder
    \/ Respond

AuthSpec == AuthInit /\ [][AuthNext]_vars

\* Ingestion and deletion with the Object Store connected, and the
\* background folder deletions, with administrators whose requests are
\* handled at the same time.
CloudInit ==
    /\ Started
    /\ cfg = [adminSecret |-> <<>>, cloudinary |-> TRUE, keyLoaded |-> FALSE,
              database |-> TRUE]

CloudNext ==
    \/ RegisterShared
    \/ RegisterUpload
    \/ RegisterEnsureProject
    \/ RegisterCreateOf(InsertFaults)
    \/ RegisterReturn
    \/ DeleteUpdate
    \/ DeleteUpdateDelete
    \/ DeleteProject
    \/ DeleteProjectUpdates
    \/ DeleteProjectDelete
    \/ RunDeleteFolder
    \/ Respond

CloudSpec == CloudInit /\ [][CloudNext]_vars

\* Ingestion and the manifest endpoint when PRIVATE_KEY_PATH names a key:
\* the key was loaded at startup, or the load failed and the server went on.
SignInit ==
    /\ Started
    /\ cfg \in {[adminSecret |-> <<>>, cloudinary |-> FALSE, keyLoaded |-> loaded,
                  database |-> TRUE] :
                  loaded \in BOOLEAN}

SignNext ==
    \/ RegisterUpdate
    \/ RegisterEnsureProject
    \/ RegisterCreate
    \/ RegisterReturn
    \/ ManifestSigned
    \/ Respond

SignSpec == SignInit /\ [][SignNext]_vars

\* Ingestion, deletion and the asset endpoint with its background download
\* increments.  Every started goroutine runs in the end (the goroutines of
\* one updateId are interchangeable).
AssetNext ==
    \/ RegisterExport
    \/ RegisterEnsureProject
    \/ RegisterExportCreate
    \/ RegisterReturn
    \/ DeleteUpdate
    \/ DeleteUpdateDelete
    \/ Asset
    \/ RunIncrement
    \/ Respond

AssetSpec ==
    Init /\ [][AssetNext]_vars /\ \A updateId \in TrackedIds : WF_vars(RunIncrementOf(updateId))

\* The manifest endpoint and the admin update routes over a store whose
\* calls may fail, on a server that reached the database at startup or did
\* not (database.Connect failed, the update repository is nil).
FaultyInit ==
    /\ Started
    /\ cfg \in {[DevConfig EXCEPT !.database = connected] : connected \in BOOLEAN}

FaultyNext ==
    \/ RegisterExport
    \/ RegisterEnsureProject
    \/ RegisterExportCreate
    \/ RegisterReturn
    \/ UpdateUpdateOf(PatchBodies, StoreFaults)
    \/ CreateRollback
    \/ CreateRollbackCreateOf(StoreFaults)
    \/ DeleteUpdateOf(StoreFaults)
    \/ DeleteUpdateDeleteOf(StoreFaults)
    \/ ManifestFor({""}, StoreFaults)
    \/ Respond

FaultySpec == FaultyInit /\ [][FaultyNext]_vars

\* The rollout service is asked about one device at two percentages, and
\* the device's bucket is computed.
Rollout ==
    /\ last = Idle
    /\ \E deviceHash \in DeviceHashes, low \in Percentages, high \in Percentages :
          /\ low <= high
          /\ last' = [op |-> "rollout", deviceHash |-> deviceHash,
                      low |-> low, high |-> high,
                      servedLow |-> ShouldReceiveUpdate(low, deviceHash),
                      servedHigh |-> ShouldReceiveUpdate(high, deviceHash),
                      bucket |-> CalculateRolloutBucket(deviceHash)]
    /\ UNCHANGED <<store, nextId, clock, acked, cfg, tempDirs, cdn, cdnDeleting, pending,
                   nextUpload, running>>

\* The rollout service on its own.
RolloutNext ==
    \/ Rollout
    \/ Respond

RolloutSpec == Init /\ [][RolloutNext]_vars

\* The asset endpoint asked for local files under every name.
PathNext ==
    \/ AssetAnyPath
    \/ Respond

PathSpec == Init /\ [][PathNext]_vars

\* The client endpoints (manifest and assets, scoped and legacy routes) over
\* a store that complete exports are ingested into.
ClientNext ==
    \/ RegisterExport
    \/ RegisterEnsureProject
    \/ RegisterExportCreate
    \/ RegisterReturn
    \/ Manifest
    \/ Asset
    \/ RunIncrement
    \/ Respond

ClientSpec == Init /\ [][ClientNext]_vars

\* Complete exports ingested by publishers whose requests are handled at the
\* same time, administrators who deactivate and delete records, and clients
\* who ask for manifests at any time.
IngestNext ==
    \/ RegisterExport
    \/ RegisterEnsureProject
    \/ RegisterExportCreate
    \/ RegisterReturn
    \/ UpdateUpdate
    \/ DeleteUpdate
    \/ DeleteUpdateDelete
    \/ Manifest
    \/ Respond

IngestSpec == Init /\ [][IngestNext]_vars

\* Ingestion of uploads of every kind, complete or not, with the faults of
\* an ingestion, the PATCH route and the manifest endpoint.
UploadNext ==
    \/ RegisterUpdate
    \/ RegisterEnsureProject
    \/ RegisterCreate
    \/ RegisterReturn
    \/ UpdateUpdate
    \/ Manifest
    \/ Respond

UploadSpec == Init /\ [][UploadNext]_vars

----------------------------------------------------------------------------
\* Properties

\* The manifest endpoint has just answered a request that passed the
\* pre-checks.
Looked ==
    /\ last.op = "manifest"
    /\ last.req.platform \in {"ios", "android"}
    /\ last.req.runtimeVersion # ""
    /\ last.req.projectSlug # ""

\* The record FindLatest returned for that request.
Candidate == store[last.found[1]]

\* The channel a request asks for.
AskedChannel(req) == IF req.channel = "" THEN "production" ELSE req.channel

\* Record u is one the request may be served: same project, runtime and
\* channel, platform the requested one or all.
Eligible(u, req) ==
    /\ u.projectSlug = req.projectSlug
    /\ u.runtimeVersion = req.runtimeVersion
    /\ u.channel = AskedChannel(req)
    /\ u.platform \in {req.platform, "all"}

\* The two wire shapes of "no update".
NoUpdateDirective ==
    [status |-> 200, contentType |-> "multipart/mixed", part |-> "directive",
     body |-> [type |-> "noUpdateAvailable"]]

NoUpdate404 ==
    [status |-> 404, contentType |-> "application/json", part |-> "",
     body |-> [error |-> "No update available"]]

\* The "no update" outcome for a request: the directive, or the 404 when the
\* protocol version is 0 or the header is missing.
NoUpdateFor(req) ==
    IF req.protocolVersion \in {"", "0"} THEN NoUpdate404 ELSE NoUpdateDirective

\* C1: a request that passes the pre-checks and finds no candidate is
\* answered 200 multipart with one part `directive`,
\* {"type":"noUpdateAvailable"}, under protocol version 1, and 404
\* {"error":"No update available"} under version 0 or without the header.
C1_NoCandidate ==
    (Looked /\ last.found = None) =>
        /\ last.req.protocolVersion = "1" => last.reply = NoUpdateDirective
        /\ last.req.protocolVersion \in {"", "0"} => last.reply = NoUpdate404

\* A protocol-1 request found no candidate in a store that holds records.
C1_Witness ==
    /\ Looked
    /\ last.found = None
    /\ DOMAIN store # {}
    /\ last.req.protocolVersion = "1"
    /\ last.reply.part = "directive"

\* C2: when the candidate is not a rollback, its updateId equals the
\* request's expo-current-update-id and the protocol version is 1, the reply
\* is the noUpdateAvailable directive, never a manifest part.
C2_ClientCurrent ==
    (/\ Looked
     /\ last.found # None
     /\ ~Candidate.isRollback
     /\ Candidate.updateId = last.req.currentUpdateId
     /\ last.req.protocolVersion = "1")
    => (last.reply = NoUpdateDirective /\ last.reply.part # "manifest")

\* A protocol-1 client that already runs the candidate asked again.
C2_Witness ==
    /\ Looked
    /\ last.found # None
    /\ ~Candidate.isRollback
    /\ ~Candidate.metadata.nil
    /\ Candidate.updateId = last.req.currentUpdateId
    /\ last.req.protocolVersion = "1"
    /\ last.reply.body = [type |-> "noUpdateAvailable"]

\* C4: every request that passes the pre-checks and whose candidate is a
\* non-rollback update the client does not already hold is answered 200 with
\* a `manifest` part describing that candidate.
C4_AlwaysManifest ==
    (/\ Looked
     /\ last.found # None
     /\ ~Candidate.isRollback
     /\ (Candidate.updateId # last.req.currentUpdateId
            \/ last.req.protocolVersion \in {"", "0"}))
    => (/\ last.reply.status = 200
        /\ last.reply.part = "manifest"
        /\ last.reply.body.id = Candidate.updateId)

\* C5: a full manifest is served only to requests for which the rollout
\* selector answers true for the candidate's rolloutPercentage (the request
\* carries no device hash).
C5_RolloutGated ==
    (Looked /\ last.reply.part = "manifest") =>
        TRUE \in ShouldReceiveUpdate(Candidate.rolloutPercentage, <<>>)

\* C6: FindLatest returns the record with the greatest createdAt among the
\* active records of the requested project, runtime and channel whose
\* platform is the requested one or all, and none only when there is no such
\* record.
C6_LatestWins ==
    Looked =>
        LET eligible == {id \in DOMAIN store :
                            store[id].isActive /\ Eligible(store[id], last.req)}
        IN IF eligible = {}
           THEN last.found = None
           ELSE /\ last.found # None
                /\ last.found[1] \in eligible
                /\ \A id \in eligible :
                      store[id].createdAt <= Candidate.createdAt

\* An ios request was given a platform=all record although a newer active
\* android record of the same project, runtime and channel exists.
C6_Witness ==
    /\ Looked
    /\ last.req.platform = "ios"
    /\ last.found # None
    /\ Candidate.platform = "all"
    /\ \E id \in DOMAIN store :
          /\ store[id].platform = "android"
          /\ store[id].isActive
          /\ store[id].projectSlug = last.req.projectSlug
          /\ store[id].runtimeVersion = last.req.runtimeVersion
          /\ store[id].channel = AskedChannel(last.req)
          /\ store[id].createdAt > Candidate.createdAt

\* C7: every full manifest describes a record that is in the store at that
\* moment with isActive=true, of the request's project, runtime and channel,
\* and of the requested platform or all.
C7_ServedIsLive ==
    (last.op = "manifest" /\ last.reply.part = "manifest") =>
        \E id \in DOMAIN store :
            /\ store[id].isActive
            /\ Eligible(store[id], last.req)
            /\ last.reply.body.id = store[id].updateId
            /\ last.reply.body.createdAt =
                  [sec |-> store[id].createdAt \div 1000,
                   millis |-> store[id].createdAt % 1000]
            /\ last.reply.body.runtimeVersion = store[id].runtimeVersion

\* A manifest was served for an older record while a newer eligible record
\* is deactivated.
C7_Witness ==
    /\ last.op = "manifest"
    /\ last.reply.part = "manifest"
    /\ \E id \in DOMAIN store :
          /\ ~store[id].isActive
          /\ Eligible(store[id], last.req)
          /\ store[id].createdAt > Candidate.createdAt

\* A lookup that an acknowledged, stored and active update u matches has
\* just been answered.
LookedFor(u) ==
    /\ Looked
    /\ u \in DOMAIN store
    /\ store[u].isActive
    /\ Eligible(store[u], last.req)

\* C8: an update that ingestion answered 201 for and that has not been
\* deleted is in the store, and while it is active every lookup for its
\* project, runtime, channel and a matching platform returns it or an active
\* matching record whose createdAt is not earlier than its own, never "no
\* candidate".
C8_ReadYourWrites ==
    \A u \in acked :
        /\ u \in DOMAIN store
        /\ LookedFor(u) =>
              /\ last.found # None
              /\ Candidate.isActive
              /\ Eligible(Candidate, last.req)
              /\ Candidate.createdAt >= store[u].createdAt

\* C8 as stated: the record returned is the acknowledged update or a record
\* created after it.
C8_CreatedAfter ==
    \A u \in acked :
        LookedFor(u) =>
            /\ last.found # None
            /\ \/ last.found[1] = u
               \/ Candidate.createdAt > store[u].createdAt

\* Two ingestions were in flight at once: a lookup that an acknowledged
\* active update matches returned a record that was inserted before it and
\* stamped after it.
C8_Witness ==
    /\ Looked
    /\ last.found # None
    /\ \E u \in acked :
          /\ LookedFor(u)
          /\ last.found[1] < u
          /\ Candidate.createdAt > store[u].createdAt

\* C9: every persisted record has 0 <= rolloutPercentage <= 100.
C9_RolloutInRange ==
    \A id \in DOMAIN store :
        /\ 0 <= store[id].rolloutPercentage
        /\ store[id].rolloutPercentage <= 100

\* C10: a successful patch that carries rolloutPercentage leaves the record
\* with the value clamped to 0..100 (150 gives 100, -5 gives 0).
C10_PatchClamps ==
    (/\ last.op = "patch"
     /\ last.status = 200
     /\ last.body.rolloutPercentage # None)
    => store[last.id].rolloutPercentage =
          (IF last.body.rolloutPercentage[1] < 0 THEN 0
           ELSE IF last.body.rolloutPercentage[1] > 100 THEN 100
           ELSE last.body.rolloutPercentage[1])

\* The step is one of a RegisterUpdate call: it builds the reply of one, or a
\* call of RegisterUpdate starts to wait, goes on or returns.
RegisterStep ==
    \/ last = Idle /\ last'.op = "register"
    \/ {call \in BagToSet(running) : call.op = "register"}
          # {call \in BagToSet(running') : call.op = "register"}

\* C11: ingestion is all-or-nothing for the record: a RegisterUpdate request
\* answered with a 4xx or 5xx status (missing fields, missing bundle file,
\* temp-dir or zip write failure, unzip failure, insert failure) leaves the
\* set of Update records of the store as it was: no step of a RegisterUpdate
\* call changes the store, except the one that builds the 201 reply.
C11_AllOrNothing ==
    [][(RegisterStep /\ ~(last'.op = "register" /\ last'.status = 201))
          => store' = store]_vars

\* An ingestion failed at the insert, after hashing, in a store that holds
\* records, and its temp directory is still there.
C11_Witness ==
    /\ last.op = "register"
    /\ last.status = 500
    /\ last.error = "failed to insert update: " \o ErrStore
    /\ DOMAIN store # {}
    /\ DOMAIN tempDirs # {}

\* The unpacked tree lacks metadata.json, a launch bundle, or an asset file
\* that metadata.json names.
IncompleteBundle(zip) ==
    \/ zip.metadataJson = None
    \/ \E plat \in DOMAIN zip.metadataJson[1] :
         LET pm == zip.metadataJson[1][plat]
         IN \/ pm.bundle \notin DOMAIN zip.files
            \/ \E i \in DOMAIN pm.assets : pm.assets[i].path \notin DOMAIN zip.files

\* C12: when metadata.json, a launch bundle or a named asset file is absent
\* from the unpacked tree, ingestion is answered with an error status and no
\* Update record is persisted.
C12_MissingFileFails ==
    (/\ last.op = "register"
     /\ last.form.bundle # None
     /\ IncompleteBundle(last.form.bundle[1]))
    => (last.status >= 400 /\ last.created = None)

\* The byte contents of the files publishers upload.
FileContents == {"x", "y", "z"}

\* key and hash are the two encodings of the digest of one file content.
SameDigest(key, hash) ==
    \E data \in FileContents :
       /\ key = "hex32:" \o Sha256(data)
       /\ hash = "b64url:" \o Sha256(data)

\* C13: in every persisted Update, for the launch bundle of each platform
\* and for every listed asset, key (first 32 hex characters) and hash
\* (unpadded URL-safe base64) are derived from one SHA-256 digest of the
\* file's bytes; no entry has one without the matching other.
C13_KeyHashAgree ==
    \A id \in DOMAIN store :
       ~store[id].metadata.nil =>
          \A plat \in DOMAIN store[id].metadata.fileMetadata :
             LET pm == store[id].metadata.fileMetadata[plat]
             IN /\ SameDigest(pm.bundleKey, pm.bundleHash)
                /\ \A i \in DOMAIN pm.assets :
                      SameDigest(pm.assets[i].key, pm.assets[i].hash)

\* The directory a bundle path names exists: the path is the unpacked tree of
\* an upload directory that exists, or the bundle directory inside that tree.
BundleDirExists(path) ==
    \E n \in 1..MaxUploads, root \in {"", "dist", "bundles"} :
       /\ TempDir(n) \in DOMAIN tempDirs
       /\ path = BundlePath(n, root)

\* C14: without the Object Store, once the ingestion response has been sent
\* and until the record is deleted, the directory named by the bundlePath of
\* every persisted non-rollback Update exists.
C14_BundlePathExists ==
    (last = Idle /\ ~cfg.cloudinary) =>
       \A id \in DOMAIN store :
          ~store[id].isRollback => BundleDirExists(store[id].bundlePath)

\* The step answers an asset request.
AssetStep == last = Idle /\ last'.op = "asset"

\* The step is the run of one background increment.
IncrementStep == Len(pending') < Len(pending)

\* The records whose internal id is written as updateId.
RecordsOf(s, updateId) == {id \in DOMAIN s : Hex(id) = updateId}

\* C15: an asset request with a non-empty redirect is answered 302 to the
\* redirect URL; with isLaunchAsset=true and an updateId it starts one
\* increment; no increment waits for ever, and when it runs it either adds
\* exactly 1 to the downloads of the record with that internal id and to no
\* other record's or, when no record has that id any more or the UpdateOne
\* fails, changes nothing; without isLaunchAsset=true or without updateId
\* the reply is the same 302 and no counter changes.
C15_RedirectCounts ==
    /\ [][(AssetStep /\ last'.req.redirect # "") =>
            /\ last'.reply.status = 302
            /\ last'.reply.location = last'.req.redirect
            /\ store' = store
            /\ pending' = IF last'.req.isLaunchAsset = "true" /\ last'.req.updateId # ""
                          THEN Append(pending, last'.req.updateId)
                          ELSE pending]_vars
    /\ [][IncrementStep =>
            \E i \in DOMAIN pending :
               /\ pending' = [j \in 1..(Len(pending) - 1) |->
                                IF j < i THEN pending[j] ELSE pending[j + 1]]
               /\ \/ store' = store
                  \/ \E id \in RecordsOf(store, pending[i]) :
                        store' = [store EXCEPT ![id].downloads = @ + 1]]_vars
    /\ [][~IncrementStep =>
            \A id \in DOMAIN store \cap DOMAIN store' :
               store'[id].downloads = store[id].downloads]_vars
    /\ []<>(pending = <<>>) \/ []<><<IncrementStep>>_vars

\* C15 as stated: the increment a request started for an existing record
\* raises that record's downloads in the end.
C15_EventuallyCounted ==
    \A id \in 1..MaxUpdates, n \in 0..MaxDownloads :
       (/\ id \in DOMAIN store
        /\ \E i \in DOMAIN pending : pending[i] = Hex(id)
        /\ store[id].downloads = n)
       ~> (id \in DOMAIN store /\ store[id].downloads > n)

\* A redirected launch-asset request for one record has been counted: that
\* record's downloads went up, another record's did not, and no increment is
\* in flight.
C15_Witness ==
    /\ pending = <<>>
    /\ \E id \in DOMAIN store :
         /\ store[id].downloads = 1
         /\ \E other \in DOMAIN store : store[other].downloads = 0

\* C16: a download is recorded once per launch-asset fetch on both serving
\* paths: every successful asset request (bytes streamed from the updates
\* directory, or a redirect to the CDN) with isLaunchAsset=true and the id of
\* a record starts one increment of that record's downloads, and a request
\* for a non-launch asset starts none.
C16_BothPathsCount ==
    [][AssetStep =>
         /\ (/\ last'.reply.status \in {200, 302}
             /\ last'.req.isLaunchAsset = "true"
             /\ RecordsOf(store, last'.req.updateId) # {})
            => pending' = Append(pending, last'.req.updateId)
         /\ last'.req.isLaunchAsset # "true" => pending' = pending]_vars

\* The replies to requests under /api/admin: the one of AdminAuth, which is
\* the same on every route, and those of the handlers.
AdminOps == {"adminAuth", "register", "patch", "rollback", "delete", "deleteProject"}

\* The header is "Bearer <secret>", the scheme in any letter case.
CarriesSecret(header, secret) ==
    /\ Len(header) = 7 + Len(secret)
    /\ ToLower(SubSeq(header, 1, 6)) = <<"b", "e", "a", "r", "e", "r">>
    /\ header[7] = " "
    /\ SubSeq(header, 8, Len(header)) = secret

\* C17: with a non-empty admin secret, an admin request whose Authorization
\* header is missing, is not of the Bearer form or carries another token is
\* answered 401 and its handler does not run (the store and the Object Store
\* stay as they were), and a request carrying the secret is not answered
\* 401; with an empty secret no admin request is answered 401.
C17_AdminAuth ==
    /\ [](last.op \in AdminOps =>
            IF cfg.adminSecret # <<>>
            THEN last.status = 401 <=> ~CarriesSecret(last.auth, cfg.adminSecret)
            ELSE last.status # 401)
    /\ [][(last = Idle /\ last'.op \in AdminOps /\ last'.status = 401) =>
            UNCHANGED <<store, nextId, acked, tempDirs, cdn, cdnDeleting,
                        nextUpload, running>>]_vars

\* A request with another token has been answered 401 by a server whose
\* store and Object Store hold an update.
C17_Witness ==
    /\ cfg.adminSecret # <<>>
    /\ last.op \in AdminOps
    /\ last.status = 401
    /\ last.error = "Invalid admin token"
    /\ DOMAIN store # {}
    /\ cdn # {}

\* No lookup has a rollback record as its candidate: CreateRollback stores
\* its record without a project slug, and a request without a project slug
\* is answered before the lookup.
RollbackNeverCandidate ==
    (last.op = "manifest" /\ last.found # None) => ~Candidate.isRollback

\* A multipart reply the endpoint gives (a manifest part or a
\* noUpdateAvailable directive) carries the expo-signature part header
\* exactly when the request's expo-expect-signature is non-empty and a
\* signing key is loaded, and the signature is over the part's body; with no
\* key loaded (a failed load included) every reply is unsigned.
SignedIffExpectedAndLoaded ==
    last.op = "manifest" =>
       /\ last.reply.part # "" =>
             (last.signature # None <=> (last.expect # "" /\ cfg.keyLoaded))
       /\ last.reply.part = "" => last.signature = None
       /\ last.signature # None =>
             last.signature[1] = CreateSignatureHeader(last.reply.body)

\* A client that expects a signature got a signed manifest part.
SignedManifestServed ==
    /\ last.op = "manifest"
    /\ last.reply.part = "manifest"
    /\ last.expect # ""
    /\ cfg.keyLoaded
    /\ last.signature # None

\* The folders for which the step starts a DeleteFolder call.
StartedFolders ==
    {folder \in BagToSet(cdnDeleting') :
        CopiesIn(folder, cdnDeleting') > CopiesIn(folder, cdnDeleting)}

\* The DeleteProject calls that get the answer of FindAll in the step.
StartedProjectDeletes ==
    {call \in BagToSet(running') :
        /\ call.op = "deleteProject"
        /\ call.phase = "updates"
        /\ CopiesIn(call, running') > CopiesIn(call, running)}

\* C19: DeleteProject cascades: when it answers 200, no Update with that
\* project slug remains in the store and, with the Object Store connected, a
\* folder deletion has been started for every update the project had when
\* the handler looked.
C19_Cascade ==
    /\ [][(/\ last = Idle
           /\ last'.op = "deleteProject"
           /\ last'.status = 200) =>
            \A id \in DOMAIN store' : store'[id].projectSlug # last'.slug]_vars
    /\ [][\A call \in StartedProjectDeletes :
            cfg.cloudinary =>
               \A id \in DOMAIN store :
                  store[id].projectSlug = call.slug =>
                     FolderOf(store[id]) \in StartedFolders]_vars

\* Every record with isRollback = TRUE has no metadata and an empty
\* bundlePath, and every manifest part describes the candidate of its own
\* lookup, which is not a rollback record, and names the updateId of no
\* rollback record.
RollbackRecordsBare ==
    /\ \A id \in DOMAIN store :
          store[id].isRollback =>
             (store[id].metadata = NilMetadata /\ store[id].bundlePath = "")
    /\ (last.op = "manifest" /\ last.reply.part = "manifest") =>
          /\ last.found # None
          /\ ~Candidate.isRollback
          /\ \A id \in DOMAIN store :
                store[id].isRollback => last.reply.body.id # store[id].updateId

\* A manifest part was served for a runtime version and channel for which
\* the store holds a rollback record not older than the record served.
RollbackPassedOver ==
    /\ last.op = "manifest"
    /\ last.reply.part = "manifest"
    /\ \E id \in DOMAIN store :
          /\ store[id].isRollback
          /\ store[id].runtimeVersion = last.req.runtimeVersion
          /\ store[id].channel = AskedChannel(last.req)
          /\ store[id].createdAt >= Candidate.createdAt

\* C21: the legacy unscoped routes GET /api/manifest and GET /api/assets,
\* which carry no project slug, always reply 400, whatever headers and query
\* parameters come with the request.
C21_LegacyRoutes400 ==
    /\ (last.op = "manifest" /\ last.req.projectSlug = "") => last.reply.status = 400
    /\ (last.op = "asset" /\ last.projectSlug = "") => last.reply.status = 400

\* C22: a store call that fails at request time is surfaced as HTTP 503: a
\* failing FindLatest during a manifest request is answered 503 and never as
\* "no update available", and a failing patch or delete of the admin surface
\* is answered 503 and with no other status.
C22_StoreFailure503 ==
    (last.op \in {"manifest", "patch", "delete"} /\ last.storeError) =>
       IF last.op = "manifest" THEN last.reply.status = 503 ELSE last.status = 503

\* The path lies inside the directory.
Inside(path, dir) ==
    Len(path) > Len(dir) /\ SubSeq(path, 1, Len(dir)) = dir

\* C23: for every value of the asset parameter, a request without redirect
\* is rejected (400 when a parameter is missing or the cleaned path contains
\* "..", 404 when the file is absent) or streams a file located inside the
\* updates directory; no file outside that directory is read.
C23_StaysInUpdatesDir ==
    (last.op = "asset" /\ last.req.redirect = "") =>
       \/ last.reply.status \in {400, 404} /\ last.reply.file = None
       \/ /\ last.reply.status = 200
          /\ last.reply.file # None
          /\ Inside(last.reply.file[1], UpdatesDir)
          /\ FileSystem[last.reply.file[1]].kind = "file"
          /\ last.reply.body = FileSystem[last.reply.file[1]].data

\* C24: for a non-empty device hash and percentages low <= high, a device
\* served at low is served at high; every percentage >= 100 serves, every
\* percentage <= 0 does not, and between them a device is served exactly
\* when its bucket, as CalculateRolloutBucket gives it, is below the percentage.
C24_RolloutMonotone ==
    last.op = "rollout" =>
       /\ (last.deviceHash # <<>> /\ TRUE \in last.servedLow) => last.servedHigh = {TRUE}
       /\ last.low >= 100 => last.servedLow = {TRUE}
       /\ last.low <= 0 => last.servedLow = {FALSE}
       /\ (last.deviceHash # <<>> /\ 0 < last.low /\ last.low < 100) =>
             last.servedLow = {last.bucket < last.low}

\* A device with a hash summing above 100 is served at a partial
\* percentage and asked again at a higher partial percentage.
C24_Witness ==
    /\ last.op = "rollout"
    /\ last.deviceHash = <<97, 122>>
    /\ last.bucket = 19
    /\ last.low = 20 /\ last.high = 60
    /\ last.servedLow = {TRUE}

\* C25: the rollout percentage persisted by a successful ingestion equals
\* the submitted rolloutPercentage for every integer in 0..100, 0 included,
\* and is 100 only when the field was omitted or was 100.
C25_RolloutAsSubmitted ==
    (last.op = "register" /\ last.status = 201 /\ last.created[1] \in DOMAIN store) =>
       LET submitted == last.form.rolloutPercentage
           persisted == store[last.created[1]].rolloutPercentage
       IN /\ (submitted # None /\ Atoi(submitted[1]) \in 0..100) =>
                persisted = Atoi(submitted[1])
          /\ persisted = 100 => (submitted = None \/ Atoi(submitted[1]) = 100)

\* Record r is the rollback record an admin created on update u and nothing
\* was inserted since: r is the newest record, u is a shippable update, and r
\* carries u's runtime version and channel.
RolledBack(r, u) ==
    /\ store[r].isRollback
    /\ ~store[u].isRollback
    /\ \A id \in DOMAIN store \ {r} : store[id].createdAt < store[r].createdAt
    /\ store[r].runtimeVersion = store[u].runtimeVersion
    /\ store[r].channel = store[u].channel

\* C26: after create-rollback on an update U of project P, the next manifest
\* request for P with U's runtime version and channel, from a client whose
\* current update is not its embedded one, is answered with the
\* rollBackToEmbedded directive: the rollback record is the candidate.
C26_RollbackServed ==
    \A r \in DOMAIN store, u \in DOMAIN store :
       ( /\ Looked
         /\ last.req.protocolVersion = "1"
         /\ RolledBack(r, u)
         /\ store[u].projectSlug = last.req.projectSlug
         /\ store[u].runtimeVersion = last.req.runtimeVersion
         /\ store[u].channel = AskedChannel(last.req)
         /\ last.req.currentUpdateId # last.req.embeddedUpdateId )
       => /\ last.found = Some(r)
          /\ last.reply.part = "directive"
          /\ last.reply.body.type = "rollBackToEmbedded"

\* Record u names a file of the Object Store: a bundleUrl or an asset url
\* was written into its metadata.
NamesCdnFile(u) ==
    /\ ~u.metadata.nil
    /\ \E plat \in DOMAIN u.metadata.fileMetadata :
          \/ u.metadata.fileMetadata[plat].bundleUrl # ""
          \/ \E i \in DOMAIN u.metadata.fileMetadata[plat].assets :
                u.metadata.fileMetadata[plat].assets[i].url # ""

\* C27: delete-update and delete-project start CDN deletion only for the
\* deleted records' own folders: no deletion started by the operation
\* removes a file that a bundleUrl or asset url of a record still in the
\* store names, even when records share a runtime version or an updateId.
\* The records looked at are those the operation was not asked to delete.
C27_OwnFolderOnly ==
    [][\A folder \in StartedFolders, id \in DOMAIN store' :
         ( /\ NamesCdnFile(store'[id])
           /\ (last = Idle /\ last'.op = "delete") => id # last'.id
           /\ \A call \in StartedProjectDeletes : store'[id].projectSlug # call.slug )
         => ~HasPrefix(folder, FolderOf(store'[id]))]_vars

\* The assets recorded in the candidate's metadata for the requested platform.
RecordedAssets == Candidate.metadata.fileMetadata[last.req.platform].assets

\* C28: every full manifest lists, in order, one asset entry for each asset
\* recorded in the candidate's metadata for the requested platform; no 200
\* manifest omits a recorded asset.
C28_NoAssetOmitted ==
    (Looked /\ last.found # None /\ last.reply.part = "manifest") =>
       /\ Len(last.reply.body.assets) = Len(RecordedAssets)
       /\ \A i \in DOMAIN RecordedAssets :
             i \in DOMAIN last.reply.body.assets =>
                last.reply.body.assets[i].fileExtension = "." \o RecordedAssets[i].ext

\* C29: CDN folder deletion is started for an update only after its record
\* has been removed from the store: a step of delete-update or
\* delete-project that starts the deletion of a folder leaves in the store
\* no record of that folder which the operation was asked to delete.
C29_DeleteStoreFirst ==
    [][\A folder \in StartedFolders, id \in DOMAIN store' :
         ( \/ last = Idle /\ last'.op = "delete" /\ id = last'.id
           \/ \E call \in StartedProjectDeletes : store'[id].projectSlug = call.slug )
         => FolderOf(store'[id]) # folder]_vars

\* The CDN URLs record u holds: its bundleUrls and asset urls.
StoredUrls(u) ==
    IF u.metadata.nil THEN {}
    ELSE UNION { {u.metadata.fileMetadata[plat].bundleUrl}
                 \cup {u.metadata.fileMetadata[plat].assets[i].url :
                          i \in DOMAIN u.metadata.fileMetadata[plat].assets} :
                 plat \in DOMAIN u.metadata.fileMetadata } \ {""}

\* C30: every 302 of the asset endpoint has as Location a bundleUrl or
\* asset url of a persisted Update record; a redirect parameter that is any
\* other URL is not redirected to.
C30_RedirectStoredOnly ==
    (last.op = "asset" /\ last.reply.status = 302) =>
       \E id \in DOMAIN store : last.reply.location \in StoredUrls(store[id])

====
